---------------------------- MODULE Spec2Model ----------------------------
(***************************************************************************)
(* A state-machine model of the emulator core of mkrasnitski/rgb: the PPU  *)
(* register file and mode scheduler (src/src/ppu.rs), the timers and the   *)
(* interrupt lines of the memory bus (src/src/bus/mod.rs), the CPU run     *)
(* loop with interrupt service (src/src/cpu/mod.rs), the ALU half-carry    *)
(* helpers and the MBC1 mapper (src/src/bus/cartridge/mbc1.rs).            *)
(*                                                                         *)
(* Each component has its own next-state relation and specification over   *)
(* the same variables; a component's specification leaves the other        *)
(* components' variables unchanged.                                        *)
(***************************************************************************)
EXTENDS Integers, Sequences, FiniteSets, TLC

VARIABLES
    ppu,        \* Ppu: the registers and scheduling fields of struct Ppu
    ppuOut,     \* the (vblank, stat) pair returned by the last Ppu::step
    timers,     \* MemoryBus::timers: the fields of struct Timers
    timerOut,   \* what the last Timers::increment did: interrupt, clocked, wrapped
    int_flag,   \* MemoryBus::int_flag
    cycles,     \* Cpu::cycles
    tlog,       \* history of the timer since its last tick (see TimerLog)
    registers,  \* Cpu::registers: the fields a, sp and pc of struct Registers
    ime,        \* Cpu::ime
    halted,     \* Cpu::halted
    int_enable, \* MemoryBus::int_enable
    mem,        \* MemoryBus::wram and hram: the bytes written so far, by address
    loopPos,    \* position in the loop of Cpu::run: "check", "step" or "error"
    last,       \* the instruction executed last: op, and ime, pc, cycles before it
    fetched,    \* the opcode byte read by the last call of Cpu::decode_instr
    alu,        \* the ALU's view of the CPU: A, the operand, HL, the flags, the last op
    mbc1,       \* the fields of struct MBC1 (without the ROM bytes), and whether it panicked
    mbcOut,     \* the last Mapper::read since the last write: address and value
    written,    \* the bank numbers last written to 2000-3FFF and 4000-5FFF,
                \* and the byte last written to 2000-3FFF (raw1, <<>> if none)
    busOut,     \* the last value a device returned to MemoryBus::read: <<address, value>>, <<>> if none
    mbc1ram,    \* the fields of struct MBC1Ram (RAM as the bytes written so far), and whether it panicked
    mbc3,       \* the fields of struct MBC3 (the ROM by its length), and whether it panicked
    rtcCart,    \* the fields of struct MBC3RamRtc (RAM as the bytes written so far), and whether it panicked
    sav,        \* the save file written by the last save_external_ram and not yet loaded, <<>> if none
    mbc5,       \* the fields of struct MBC5 (without the ROM bytes)
    bus,        \* MemoryBus: dma (base, enabled, slot), Ppu::oam_ram, hram, and the number of writes to FF46 so far
    busIn,      \* the last write MemoryBus::write passed to the APU or the joypad: <<address, value>>, <<>> if none
    apu,        \* the fields of struct Apu (without the sampler), and the model's counts of writes and frame steps
    joypad,     \* the fields of struct Joypad
    host,       \* Display: the FrameLimiter (time in units, elapsed since its instant) and the number of run_frame calls of the last draw_frame
    sampler,    \* Apu::sampler: the length of sample_buffer, limit_framerate, whether 1/128 s has elapsed since instant, and the samples in the channel
    scan,       \* the OAM scan of one line: Ppu::oam_ram (as <<y, x>> per entry), LCDC bit 2, LY, the cycle of the line (clocks) and Ppu::oam_sprites
    opc,        \* one opcode through Cpu::run: the byte at pc, the byte after it, the instruction decoded and how far the iteration got (stage)
    noise,      \* Channel4, the fields of the noise generator: clock_divider, lfsr_width, clock_shift, trigger, lfsr and period_counter
    frame       \* the frame loop seen from outside: whether Ppu::draw has been raised, and the Ppu::step calls made after the call that raised it last

(***************************************************************************)
(* Bit and byte utilities (src/src/utils.rs and Rust's integer operators). *)
(***************************************************************************)

\* BitExtract::bit: bit n of x.
Bit(x, n) == (x \div (2 ^ n)) % 2 = 1

(***************************************************************************)
(* PPU (src/src/ppu.rs).  VRAM, OAM and the viewport are not part of this  *)
(* model: the properties below are about the register file, the mode       *)
(* scheduler and the frame counters.                                       *)
(***************************************************************************)

\* enum PpuMode, with its repr(u8) discriminants.
HBlank == 0
VBlank == 1
OamScan == 2
Drawing == 3

\* The period of Ppu::step's counters: 154 lines of 114 m-cycles.
FrameCycles == 17556
LineCycles == 114
VisibleLines == 144
LastLine == 153
OamScanCycles == 20
HBlankStart == 63

\* Ppu::new.
PpuNew ==
    [ LCDC |-> 0, STAT |-> 128, LY |-> 0, LYC |-> 0,
      mode |-> HBlank, stat_condition |-> FALSE,
      cycles |-> 0, ticks |-> 0, draw |-> FALSE, first_lcd_frame |-> FALSE ]

\* Ppu::read of FF41: the STAT field as stored.
ReadSTAT(p) == p.STAT

\* A set_mode that updates STAT bits 0-1 and not the mode field.
set_mode_stat_only(p, m) ==
    [p EXCEPT !.STAT = (p.STAT \div 4) * 4 + (m % 4)]

\* Ppu::set_mode: store the mode and copy it into STAT bits 0-1
\* (STAT & 0b11111100 | mode & 0b11).
set_mode(p, m) ==
    [p EXCEPT !.mode = m, !.STAT = (p.STAT \div 4) * 4 + (m % 4)]

\* Ppu::check_lyc: recompute STAT bit 2 from LY == LYC
\* (STAT & 0b11111011 | c << 2).
check_lyc(p) ==
    [p EXCEPT !.STAT = (p.STAT \div 8) * 8 + (IF p.LY = p.LYC THEN 4 ELSE 0)
                         + (p.STAT % 4)]

\* The condition Ppu::check_stat computes from STAT bits 3-6 and the mode.
StatLine(p, ly_coincidence) ==
    \/ Bit(p.STAT, 6) /\ ly_coincidence
    \/ \E m \in 0..2 : Bit(p.STAT, m + 3) /\ p.mode = m

\* Ppu::check_stat: the new condition is stored; the result is its rising edge.
check_stat(p, ly_coincidence) ==
    [ ppu  |-> [p EXCEPT !.stat_condition = StatLine(p, ly_coincidence)],
      stat |-> StatLine(p, ly_coincidence) /\ ~p.stat_condition ]

\* Ppu::cycle, the mode part: what lines 220-263 do to LY, mode and STAT.
CycleModes(p) ==
    LET clocks   == p.cycles % LineCycles
        scanline == p.cycles \div LineCycles
        p1 == IF clocks = 0 THEN [p EXCEPT !.LY = scanline] ELSE p
    IN  IF scanline < VisibleLines
        THEN IF clocks = 0 THEN set_mode(p1, OamScan)
             ELSE IF clocks = OamScanCycles THEN set_mode(p1, Drawing)
             ELSE IF clocks = HBlankStart THEN set_mode(p1, HBlank)
             ELSE p1
        ELSE IF scanline = VisibleLines /\ clocks = 0 THEN set_mode(p1, VBlank)
        ELSE IF scanline = LastLine /\ clocks = 1 THEN [p1 EXCEPT !.LY = 0]
        ELSE p1

\* Ppu::cycle: one m-cycle of the enabled PPU; returns (vblank, stat).
cycle(p) ==
    LET p2 == check_lyc(CycleModes(p))
        r  == check_stat(p2, p2.LY = p2.LYC)
    IN  [ ppu    |-> r.ppu,
          vblank |-> (p.cycles \div LineCycles = VisibleLines
                      /\ p.cycles % LineCycles = 0),
          stat   |-> r.stat ]

\* Ppu::step: the frame-boundary flag, then one cycle (LCD on) or the reset
\* of the held fields (LCD off).
step(p) ==
    LET p0 == IF p.ticks = FrameCycles
              THEN [p EXCEPT !.ticks = 0, !.draw = TRUE] ELSE p
    IN  IF Bit(p0.LCDC, 7)
        THEN LET c == cycle(p0)
             IN  [ ppu    |-> [c.ppu EXCEPT !.ticks = p0.cycles + 1,
                                            !.cycles = (p0.cycles + 1) % FrameCycles],
                   vblank |-> c.vblank,
                   stat   |-> c.stat ]
        ELSE [ ppu    |-> [set_mode([p0 EXCEPT !.cycles = 0, !.LY = 0], HBlank)
                             EXCEPT !.ticks = p0.ticks + 1],
               vblank |-> FALSE,
               stat   |-> FALSE ]

\* Ppu::write, the register arms FF40, FF41, FF44 and FF45.
PpuWrite(p, addr, val) ==
    CASE addr = 65344 ->  \* FF40
           [p EXCEPT !.LCDC = val,
                     !.first_lcd_frame =
                         IF Bit(val, 7) /\ ~Bit(p.LCDC, 7) THEN TRUE ELSE @]
      [] addr = 65345 ->  \* FF41
           \* STAT & 0b10000111 | val & 0b01111000
           [p EXCEPT !.STAT = (p.STAT \div 128) * 128 + ((val \div 8) % 16) * 8
                                + (p.STAT % 8)]
      [] addr = 65348 ->  \* FF44
           [p EXCEPT !.LY = val]
      [] addr = 65349 ->  \* FF45
           [p EXCEPT !.LYC = val]

\* Ppu::draw_check: test and clear the frame-boundary flag.
draw_check(p) == [p EXCEPT !.draw = FALSE]

(***************************************************************************)
(* Timers and interrupt flag (src/src/bus/mod.rs).                         *)
(***************************************************************************)

\* Timers::default.
TimersDefault ==
    [ div |-> 0, tima |-> 0, tma |-> 0, tac |-> 248,
      result |-> FALSE, overflow |-> FALSE ]

\* The DIV bit that Timers::increment selects for the low two bits of TAC.
TacBit(tac) ==
    CASE tac % 4 = 0 -> 9
      [] tac % 4 = 1 -> 3
      [] tac % 4 = 2 -> 5
      [] tac % 4 = 3 -> 7

\* The timer signal: the selected DIV bit and TAC bit 2.
TimerSignal(div, tac) == Bit(div, TacBit(tac)) /\ Bit(tac, 2)

\* A timer that reloads TIMA and requests the interrupt in the tick of the wrap.
increment_same_tick(t) ==
    LET div        == (t.div + 4) % 65536
        new_result == TimerSignal(div, t.tac)
        clocked    == t.result /\ ~new_result
        c          == clocked /\ t.tima = 255
    IN  [ timers |-> [ div      |-> div,
                       tima     |-> IF c THEN t.tma
                                    ELSE IF clocked THEN t.tima + 1 ELSE t.tima,
                       tma      |-> t.tma,
                       tac      |-> t.tac,
                       result   |-> new_result,
                       overflow |-> FALSE ],
          interrupt |-> c,
          clocked   |-> clocked,
          wrapped   |-> c ]

\* A timer whose reload tick leaves the overflow pending.
increment_keeps_pending(t) ==
    LET div        == (t.div + 4) % 65536
        new_result == TimerSignal(div, t.tac)
        interrupt  == t.overflow
        clocked    == t.result /\ ~new_result
        c          == clocked /\ t.tima = 255
        tima       == IF clocked THEN (t.tima + 1) % 256 ELSE t.tima
    IN  [ timers |-> [ div      |-> div,
                       tima     |-> IF interrupt THEN t.tma ELSE tima,
                       tma      |-> t.tma,
                       tac      |-> t.tac,
                       result   |-> new_result,
                       overflow |-> IF c THEN TRUE ELSE t.overflow ],
          interrupt |-> interrupt,
          clocked   |-> clocked,
          wrapped   |-> c ]

\* Timers::increment.  Returns the new fields, the interrupt request, and
\* whether the TIMA increment branch was taken and wrapped.
increment(t) ==
    LET div        == (t.div + 4) % 65536
        new_result == TimerSignal(div, t.tac)
        interrupt  == t.overflow
        clocked    == t.result /\ ~new_result
        c          == clocked /\ t.tima = 255
        tima       == IF clocked THEN (t.tima + 1) % 256 ELSE t.tima
    IN  [ timers |-> [ div      |-> div,
                       tima     |-> IF interrupt THEN t.tma ELSE tima,
                       tma      |-> t.tma,
                       tac      |-> t.tac,
                       result   |-> new_result,
                       overflow |-> IF interrupt THEN FALSE
                                    ELSE IF c THEN TRUE ELSE t.overflow ],
          interrupt |-> interrupt,
          clocked   |-> clocked,
          wrapped   |-> c ]

\* Cpu::request_interrupt: write(0xff0f, read(0xff0f) | 1 << int), where
\* MemoryBus::read gives int_flag | 0xE0 and MemoryBus::write stores val | 0xE0.
request_interrupt(flag, int) ==
    LET low == flag % 32
    IN  224 + (IF Bit(low, int) THEN low ELSE low + 2 ^ int)

\* A bus whose TIMA write leaves a pending overflow in place.
TimerWrite_keeps_overflow(t, addr, val) ==
    CASE addr = 65284 -> [t EXCEPT !.div = 0]
      [] addr = 65285 -> [t EXCEPT !.tima = val]
      [] addr = 65286 -> [t EXCEPT !.tma = val]
      [] addr = 65287 -> [t EXCEPT !.tac = 248 + (val % 8)]

\* MemoryBus::write, the timer arms FF04..FF07.
TimerWrite(t, addr, val) ==
    CASE addr = 65284 -> [t EXCEPT !.div = 0]
      [] addr = 65285 -> [t EXCEPT !.tima = val, !.overflow = FALSE]
      [] addr = 65286 -> [t EXCEPT !.tma = val]
      [] addr = 65287 -> [t EXCEPT !.tac = 248 + (val % 8)]

\* MemoryBus::read of FF05.
ReadTIMA(t) == t.tima

(***************************************************************************)
(* CPU (src/src/cpu/mod.rs, src/src/cpu/instruction.rs) over the memory    *)
(* bus.  A machine is a record of the Cpu fields and the MemoryBus fields  *)
(* the CPU model uses:                                                     *)
(*   registers, ime, halted, cycles, timers, int_flag, int_enable, mem.    *)
(***************************************************************************)

\* MemoryBus::read for work RAM, echo RAM and high RAM (zero until written),
\* FF0F and FFFF.
BusRead(m, addr) ==
    LET ram == IF addr \in 57344..65023 THEN addr - 8192 ELSE addr
    IN  CASE addr = 65295 -> m.int_flag
          [] addr = 65535 -> m.int_enable
          [] OTHER -> IF ram \in DOMAIN m.mem THEN m.mem[ram] ELSE 0

\* MemoryBus::write: work RAM (C000-DFFF), echo RAM (E000-FDFF), high RAM
\* (FF80-FFFE), the timer registers, FF0F and FFFF.  The other arms change
\* none of the machine's fields.
BusWrite(m, addr, val) ==
    CASE addr \in 49152..57343 \/ addr \in 65408..65534 ->
           [m EXCEPT !.mem = (addr :> val) @@ @]
      [] addr \in 57344..65023 ->
           [m EXCEPT !.mem = ((addr - 8192) :> val) @@ @]
      [] addr \in 65284..65287 ->
           [m EXCEPT !.timers = TimerWrite(@, addr, val)]
      [] addr = 65295 -> [m EXCEPT !.int_flag = 224 + (val % 32)]
      [] addr = 65535 -> [m EXCEPT !.int_enable = val]
      [] OTHER -> m

\* Cpu::push8: SP is decremented, then the byte is written at the new SP.
push8(m, val) ==
    LET sp == (m.registers.sp + 65535) % 65536
    IN  BusWrite([m EXCEPT !.registers.sp = sp], sp, val)

\* Cpu::push16: the high byte first, then the low byte.
push16(m, val) == push8(push8(m, val \div 256), val % 256)

\* The interrupt sources Cpu::check_for_interrupts sees: bits 0..4 of
\* int_flag & int_enable.
Pending(m) == {i \in 0..4 : Bit(m.int_flag, i) /\ Bit(m.int_enable, i)}

\* The lowest element of a non-empty set of bit numbers.
Lowest(S) == CHOOSE i \in S : \A j \in S : i <= j

\* An interrupt check that services the highest pending source.
check_for_interrupts_highest(m) ==
    IF Pending(m) = {} THEN m
    ELSE IF ~m.ime THEN [m EXCEPT !.halted = FALSE]
    ELSE LET i  == CHOOSE i \in Pending(m) : \A j \in Pending(m) : j <= i
             m1 == [m EXCEPT !.halted = FALSE, !.int_flag = @ - 2 ^ i,
                             !.ime = FALSE]
         IN  [push16(m1, m.registers.pc) EXCEPT !.registers.pc = 64 + 8 * i]

\* An interrupt check that leaves HALT only when it dispatches.
check_for_interrupts_wake_on_dispatch(m) ==
    IF Pending(m) = {} \/ ~m.ime THEN m
    ELSE LET i  == Lowest(Pending(m))
             m1 == [m EXCEPT !.halted = FALSE, !.int_flag = @ - 2 ^ i,
                             !.ime = FALSE]
         IN  [push16(m1, m.registers.pc) EXCEPT !.registers.pc = 64 + 8 * i]

\* Cpu::check_for_interrupts.
check_for_interrupts(m) ==
    IF Pending(m) = {} THEN m
    ELSE IF ~m.ime THEN [m EXCEPT !.halted = FALSE]
    ELSE LET i  == Lowest(Pending(m))
             m1 == [m EXCEPT !.halted = FALSE,
                             !.int_flag = @ - 2 ^ i,
                             !.ime = FALSE]
             m2 == push16(m1, m.registers.pc)
         IN  [m2 EXCEPT !.registers.pc = 64 + 8 * i]

\* Cpu::mtick.
mtick(m) ==
    LET r == increment(m.timers)
    IN  [m EXCEPT !.timers = r.timers,
                  !.int_flag = IF r.interrupt THEN request_interrupt(@, 2) ELSE @,
                  !.cycles = @ + 1]

\* The loop "for _ in 0..cycles { self.mtick() }" of Cpu::run.
RECURSIVE mticks(_, _)
mticks(m, n) == IF n = 0 THEN m ELSE mticks(mtick(m), n - 1)

\* The opcodes for which Cpu::decode_instr bails:
\* D3 DB DD E3 E4 EB EC ED F4 FC FD.
CrashOpcodes == {211, 219, 221, 227, 228, 235, 236, 237, 244, 252, 253}

\* A decoder that takes FD for a NOP.
decode_instr_fd_nop(code) ==
    CASE code[1] \in {0, 253} -> [op |-> "Nop"]
      [] code[1] = 49  -> [op |-> "LdR16Imm", val |-> code[2] + 256 * code[3]]
      [] code[1] = 62  -> [op |-> "LdR8Imm", val |-> code[2]]
      [] code[1] = 118 -> [op |-> "Halt"]
      [] code[1] = 224 -> [op |-> "LdIoRegFromA", imm |-> code[2]]
      [] code[1] = 243 -> [op |-> "Di"]
      [] code[1] = 251 -> [op |-> "Ei"]
      [] code[1] \in CrashOpcodes \ {253} -> [op |-> "Crash"]

\* Cpu::decode_instr on the bytes at pc, for the opcodes of the model's
\* programs: the instruction with its operand, or "Crash" where it bails.
decode_instr(code) ==
    CASE code[1] = 0   -> [op |-> "Nop"]
      [] code[1] = 49  -> [op |-> "LdR16Imm", val |-> code[2] + 256 * code[3]]
      [] code[1] = 62  -> [op |-> "LdR8Imm", val |-> code[2]]
      [] code[1] = 118 -> [op |-> "Halt"]
      [] code[1] = 224 -> [op |-> "LdIoRegFromA", imm |-> code[2]]
      [] code[1] = 243 -> [op |-> "Di"]
      [] code[1] = 251 -> [op |-> "Ei"]
      [] code[1] \in CrashOpcodes -> [op |-> "Crash"]

\* Instruction::length.
length(instr) ==
    CASE instr.op \in {"Nop", "Halt", "Di", "Ei"} -> 1
      [] instr.op \in {"LdR8Imm", "LdIoRegFromA"} -> 2
      [] instr.op = "LdR16Imm" -> 3

\* Instruction::mcycles.
mcycles(instr) ==
    CASE instr.op \in {"Nop", "Halt", "Di", "Ei"} -> 1
      [] instr.op = "LdR8Imm" -> 2
      [] instr.op \in {"LdIoRegFromA", "LdR16Imm"} -> 3

\* Cpu::execute_instr: the arms of the model's instructions
\* (LD SP,d16; LD A,d8; LDH (a8),A; DI; EI; HALT; NOP).
execute_instr(m, instr) ==
    CASE instr.op = "Nop" -> m
      [] instr.op = "LdR16Imm" -> [m EXCEPT !.registers.sp = instr.val]
      [] instr.op = "LdR8Imm" -> [m EXCEPT !.registers.a = instr.val]
      [] instr.op = "LdIoRegFromA" -> BusWrite(m, 65280 + instr.imm, m.registers.a)
      [] instr.op = "Di" -> [m EXCEPT !.ime = FALSE]
      [] instr.op = "Ei" -> [m EXCEPT !.ime = TRUE]
      [] instr.op = "Halt" -> [m EXCEPT !.halted = TRUE]

\* One iteration of Cpu::run after check_for_interrupts, for a decoded
\* instruction: pc += len, execute_instr, then mtick for each m-cycle.
run_instr(m, instr) ==
    LET m1 == [m EXCEPT !.registers.pc = @ + length(instr)]
    IN  mticks(execute_instr(m1, instr), mcycles(instr))

(***************************************************************************)
(* ALU (src/src/cpu/mod.rs): the HalfCarry helpers and the arithmetic arms *)
(* of Cpu::execute_instr.  An ALU state is a record                        *)
(*   a, val (the read_alu operand), hl, rr, flags [z, n, h, c], op,        *)
(* with the A, HL and carry the operation started from in a0, hl0 and c0.  *)
(***************************************************************************)

\* An add helper whose half carry compares the nibble sum with 0x10.
half_overflowing_add_u8_strict(x, rhs) ==
    <<(x + rhs) % 256, (x % 16) + (rhs % 16) > 16, x + rhs > 255>>

\* <u8 as HalfCarry>::half_overflowing_add: (val, h, c), with h bit 4 of the
\* sum of the low nibbles.
half_overflowing_add_u8(x, rhs) ==
    <<(x + rhs) % 256, Bit((x % 16) + (rhs % 16), 4), x + rhs > 255>>

\* <u8 as HalfCarry>::half_overflowing_sub.
half_overflowing_sub_u8(x, rhs) ==
    <<(x + 256 - rhs) % 256, (x % 16) < (rhs % 16), x < rhs>>

\* <u16 as HalfCarry>::half_overflowing_add, with h bit 12 of the sum of the
\* low 12 bits.
half_overflowing_add_u16(x, rhs) ==
    <<(x + rhs) % 65536, Bit((x % 4096) + (rhs % 4096), 12), x + rhs > 65535>>

\* Option<bool>: None is the empty sequence, Some(b) the sequence of b.
Some(b) == <<b>>

\* Cpu::set_flags with its four Option<bool> arguments.
set_flags(f, z, n, h, c) ==
    [ z |-> IF z = <<>> THEN f.z ELSE z[1],
      n |-> IF n = <<>> THEN f.n ELSE n[1],
      h |-> IF h = <<>> THEN f.h ELSE h[1],
      c |-> IF c = <<>> THEN f.c ELSE c[1] ]

\* The arithmetic arms of Cpu::execute_instr.  IncR8 and DecR8 are taken on
\* register A; Cp does not write A.
AluExec(s, op) ==
    LET cin == IF s.flags.c THEN 1 ELSE 0
        s0  == [s EXCEPT !.op = op, !.a0 = s.a, !.hl0 = s.hl, !.c0 = cin]
    IN  CASE op = "IncR8" ->
               LET r == half_overflowing_add_u8(s.a, 1)
               IN  [s0 EXCEPT !.a = r[1],
                              !.flags = set_flags(@, Some(r[1] = 0), Some(FALSE), Some(r[2]), <<>>)]
          [] op = "DecR8" ->
               LET r == half_overflowing_sub_u8(s.a, 1)
               IN  [s0 EXCEPT !.a = r[1],
                              !.flags = set_flags(@, Some(r[1] = 0), Some(TRUE), Some(r[2]), <<>>)]
          [] op = "Add" ->
               LET r == half_overflowing_add_u8(s.a, s.val)
               IN  [s0 EXCEPT !.a = r[1],
                              !.flags = set_flags(@, Some(r[1] = 0), Some(FALSE), Some(r[2]), Some(r[3]))]
          [] op = "Adc" ->
               LET r1 == half_overflowing_add_u8(s.a, cin)
                   r2 == half_overflowing_add_u8(r1[1], s.val)
               IN  [s0 EXCEPT !.a = r2[1],
                              !.flags = set_flags(@, Some(r2[1] = 0), Some(FALSE), Some(r1[2] \/ r2[2]), Some(r1[3] \/ r2[3]))]
          [] op = "Sub" ->
               LET r == half_overflowing_sub_u8(s.a, s.val)
               IN  [s0 EXCEPT !.a = r[1],
                              !.flags = set_flags(@, Some(r[1] = 0), Some(TRUE), Some(r[2]), Some(r[3]))]
          [] op = "Sbc" ->
               LET r1 == half_overflowing_sub_u8(s.a, cin)
                   r2 == half_overflowing_sub_u8(r1[1], s.val)
               IN  [s0 EXCEPT !.a = r2[1],
                              !.flags = set_flags(@, Some(r2[1] = 0), Some(TRUE), Some(r1[2] \/ r2[2]), Some(r1[3] \/ r2[3]))]
          [] op = "Cp" ->
               LET r == half_overflowing_sub_u8(s.a, s.val)
               IN  [s0 EXCEPT !.flags = set_flags(@, Some(r[1] = 0), Some(TRUE), Some(r[2]), Some(r[3]))]
          [] op = "AddHL" ->
               LET r == half_overflowing_add_u16(s.rr, s.hl)
               IN  [s0 EXCEPT !.hl = r[1],
                              !.flags = set_flags(@, <<>>, Some(FALSE), Some(r[2]), Some(r[3]))]

(***************************************************************************)
(* MBC1 (src/src/bus/cartridge/mbc1.rs, src/src/bus/cartridge/mod.rs).     *)
(***************************************************************************)

\* Bitwise or of two bytes (Rust's | on u8).
RECURSIVE Or8(_, _)
Or8(a, b) ==
    IF a = 0 THEN b
    ELSE IF b = 0 THEN a
    ELSE 2 * Or8(a \div 2, b \div 2) + (IF a % 2 = 1 \/ b % 2 = 1 THEN 1 ELSE 0)

\* Cartridge::new: num_banks = 2 << rom_type for the header byte at 0x148.
NumBanks(rom_type) == 2 * 2 ^ rom_type

\* MBC1::new.
Mbc1New(num_banks) ==
    [ num_banks |-> num_banks, bank1 |-> 1, bank2 |-> 0, mode |-> FALSE,
      panicked |-> FALSE ]

\* The ROM image: byte i of a file that fills every bank, each bank with
\* its own contents.
Rom(i) == ((i \div 16384) * 31 + (i % 16384)) % 251

\* MBC1::lo_bank; (bank2 << 5) is computed in u8.
lo_bank(c) == IF c.mode THEN ((c.bank2 * 32) % 256) % c.num_banks ELSE 0

\* MBC1::hi_bank.
hi_bank(c) == Or8((c.bank2 * 32) % 256, c.bank1) % c.num_banks

\* <MBC1 as Mapper>::read for 0000-7FFF.
Mbc1Read(c, addr) ==
    IF addr < 16384 THEN Rom(lo_bank(c) * 16384 + addr)
    ELSE Rom(hi_bank(c) * 16384 + addr - 16384)

\* <MBC1 as Mapper>::write without the zero-becomes-one rule of line 54:
\* every written value is reduced modulo the bank count.
Mbc1Write_zero_kept(c, addr, val) ==
    CASE addr \in 8192..16383 ->
           IF c.num_banks % 256 = 0 THEN [c EXCEPT !.panicked = TRUE]
           ELSE [c EXCEPT !.bank1 = (val % 32) % (c.num_banks % 256)]
      [] addr \in 16384..24575 -> [c EXCEPT !.bank2 = val % 4]
      [] addr \in 24576..32767 -> [c EXCEPT !.mode = (val # 0)]
      [] OTHER -> c

\* <MBC1 as Mapper>::write for 0000-7FFF and A000-BFFF.  "num_banks as u8"
\* is num_banks mod 256; a remainder by zero panics.
Mbc1Write(c, addr, val) ==
    CASE addr \in 8192..16383 ->
           IF val % 32 = 0 THEN [c EXCEPT !.bank1 = 1]
           ELSE IF c.num_banks % 256 = 0 THEN [c EXCEPT !.panicked = TRUE]
           ELSE [c EXCEPT !.bank1 = (val % 32) % (c.num_banks % 256)]
      [] addr \in 16384..24575 -> [c EXCEPT !.bank2 = val % 4]
      [] addr \in 24576..32767 -> [c EXCEPT !.mode = (val # 0)]
      [] OTHER -> c

(***************************************************************************)
(* MBC1 with external RAM (src/src/bus/cartridge/mbc1.rs, struct MBC1Ram). *)
(* The RAM is the function from vector index to the byte written there;    *)
(* an index never written holds 0 (vec![0; ram_size]).                     *)
(***************************************************************************)

\* Cartridge::new: the RAM size in bytes for header byte 0x149.
RamSize(ram_type) ==
    1024 * CASE ram_type = 0 -> 0   [] ram_type = 1 -> 2  [] ram_type = 2 -> 8
             [] ram_type = 3 -> 32  [] ram_type = 4 -> 128 [] ram_type = 5 -> 16

\* usize::div_ceil(0x2000): the number of 8 KiB banks covering len bytes.
RamBanks(len) == (len + 8191) \div 8192

\* MBC1Ram::new.
Mbc1RamNew(num_banks, ram_size) ==
    [ mbc1 |-> Mbc1New(num_banks), ram |-> <<>>, ram_len |-> ram_size,
      ram_bank |-> 0, ram_enabled |-> FALSE, panicked |-> FALSE ]

\* MBC1Ram::ram_bank.
ram_bank(c) == IF c.mbc1.mode THEN c.ram_bank ELSE 0

\* <MBC1Ram as Mapper>::read for A000-BFFF: <<value, panicked>>; indexing
\* the vector at or beyond its length panics.
Mbc1RamRead(c, addr) ==
    LET idx == ram_bank(c) * 8192 + addr - 40960
    IN  IF ~c.ram_enabled THEN <<255, FALSE>>
        ELSE IF idx >= c.ram_len THEN <<0, TRUE>>
        ELSE <<IF idx \in DOMAIN c.ram THEN c.ram[idx] ELSE 0, FALSE>>

\* <MBC1Ram as Mapper>::write.  The remainder by num_ram_banks panics when
\* the RAM is empty; ram_bank changes only when the mode bit is already set.
Mbc1RamWrite(c, addr, val) ==
    CASE addr \in 0..8191 -> [c EXCEPT !.ram_enabled = (val % 16 = 10)]
      [] addr \in 8192..16383 \/ addr \in 24576..32767 ->
           LET m == Mbc1Write(c.mbc1, addr, val)
           IN  [c EXCEPT !.mbc1 = [m EXCEPT !.panicked = FALSE],
                         !.panicked = m.panicked]
      [] addr \in 16384..24575 ->
           LET m == Mbc1Write(c.mbc1, addr, val)
           IN  IF ~m.mode THEN [c EXCEPT !.mbc1 = m]
               ELSE IF RamBanks(c.ram_len) % 256 = 0
                    THEN [c EXCEPT !.mbc1 = m, !.panicked = TRUE]
               ELSE [c EXCEPT !.mbc1 = m,
                              !.ram_bank = (val % 4) % (RamBanks(c.ram_len) % 256)]
      [] addr \in 40960..49151 ->
           LET ram_addr == ram_bank(c) * 8192 + addr - 40960
           IN  IF c.ram_enabled /\ ram_addr < c.ram_len
               THEN [c EXCEPT !.ram = (ram_addr :> val) @@ @]
               ELSE c
      [] OTHER -> c

(***************************************************************************)
(* MBC3 (src/src/bus/cartridge/mbc3.rs, struct MBC3).  The ROM is the file *)
(* image, Rom(i) for i below its length.                                   *)
(***************************************************************************)

\* MBC3::new.
Mbc3New(rom_len) == [ bank |-> 1, rom_len |-> rom_len, panicked |-> FALSE ]

\* <MBC3 as Mapper>::read: <<value, panicked>>; indexing the ROM at or
\* beyond its length panics, and so does the unreachable!() arm of an
\* address above 7FFF.
Mbc3Read(c, addr) ==
    LET idx == IF addr < 16384 THEN addr ELSE c.bank * 16384 + addr - 16384
    IN  IF addr > 32767 \/ idx >= c.rom_len THEN <<0, TRUE>> ELSE <<Rom(idx), FALSE>>

\* <MBC3 as Mapper>::write: the bank register takes the whole byte; a write
\* outside 2000-3FFF panics.
Mbc3Write(c, addr, val) ==
    IF addr \in 8192..16383
    THEN [c EXCEPT !.bank = IF val = 0 THEN 1 ELSE val]
    ELSE [c EXCEPT !.panicked = TRUE]

(***************************************************************************)
(* MBC3 with RAM and real-time clock (struct MBC3RamRtc, struct Rtc and    *)
(* struct RtcState of src/src/bus/cartridge/mbc3.rs).                      *)
(***************************************************************************)

\* Rtc::default.
RtcDefault ==
    [ prepare_latch |-> FALSE, carry |-> FALSE, halted |-> FALSE,
      cycles |-> 0, ticks |-> 0,
      internal_state |-> [seconds |-> 0, minutes |-> 0, hours |-> 0, days |-> 0],
      latched_state  |-> [seconds |-> 0, minutes |-> 0, hours |-> 0, days |-> 0] ]

\* RtcState::from_bytes: the array is destructured as [seconds, minutes,
\* hours, days_hi, days_lo] and days is from_be_bytes([days_hi, days_lo]).
from_bytes(bytes) ==
    [ seconds |-> bytes[1], minutes |-> bytes[2], hours |-> bytes[3],
      days |-> bytes[4] * 256 + bytes[5] ]

\* RtcState::as_bytes: [seconds, minutes, hours, days_lo, days_hi].
as_bytes(st) ==
    <<st.seconds, st.minutes, st.hours, st.days % 256, st.days \div 256>>

\* Rtc::read for registers 0x08..0x0C.
RtcRead(rtc, register) ==
    CASE register = 8  -> rtc.latched_state.seconds
      [] register = 9  -> rtc.latched_state.minutes
      [] register = 10 -> rtc.latched_state.hours
      [] register = 11 -> rtc.latched_state.days % 256
      [] register = 12 ->
           Or8((IF rtc.carry THEN 128 ELSE 0) + (IF rtc.halted THEN 64 ELSE 0),
               (rtc.latched_state.days \div 256) % 256)

\* An Rtc::write that leaves the internal state as it was.
RtcWrite_latched_only(rtc, register, val) ==
    LET l == rtc.latched_state
        w == CASE register = 8 ->
                    [rtc EXCEPT !.cycles = 0, !.ticks = 0,
                                !.latched_state.seconds = val % 64]
               [] register = 9  -> [rtc EXCEPT !.latched_state.minutes = val % 64]
               [] register = 10 -> [rtc EXCEPT !.latched_state.hours = val % 32]
               [] register = 11 ->
                    [rtc EXCEPT !.latched_state.days =
                                    ((l.days \div 256) % 2) * 256 + val]
               [] register = 12 ->
                    [rtc EXCEPT !.latched_state.days =
                                    (l.days % 256) + (val % 2) * 256,
                                !.halted = Bit(val, 6),
                                !.carry = Bit(val, 7)]
    IN  w

\* Rtc::write for registers 0x08..0x0C: the latched state is written and
\* then copied to the internal state.
RtcWrite(rtc, register, val) ==
    LET l == rtc.latched_state
        w == CASE register = 8 ->
                    [rtc EXCEPT !.cycles = 0, !.ticks = 0,
                                !.latched_state.seconds = val % 64]
               [] register = 9  -> [rtc EXCEPT !.latched_state.minutes = val % 64]
               [] register = 10 -> [rtc EXCEPT !.latched_state.hours = val % 32]
               [] register = 11 ->
                    [rtc EXCEPT !.latched_state.days =
                                    ((l.days \div 256) % 2) * 256 + val]
               [] register = 12 ->
                    [rtc EXCEPT !.latched_state.days =
                                    (l.days % 256) + (val % 2) * 256,
                                !.halted = Bit(val, 6),
                                !.carry = Bit(val, 7)]
    IN  [w EXCEPT !.internal_state = w.latched_state]

\* An Rtc::increment with a tick of 64 cycles.
RtcIncrement_tick_at_64(rtc) ==
    IF rtc.halted THEN rtc
    ELSE
      LET cyc == (rtc.cycles + 4) % 256
          c1  == IF cyc = 64 THEN 0 ELSE cyc
          t1  == IF cyc = 64 THEN (rtc.ticks + 1) % 65536 ELSE rtc.ticks
          i   == rtc.internal_state
          sec == (i.seconds + 1) % 64
          min == (i.minutes + 1) % 64
          hrs == (i.hours + 1) % 32
          day == (i.days + 1) % 65536
      IN  IF t1 # 32768 THEN [rtc EXCEPT !.cycles = c1, !.ticks = t1]
          ELSE IF sec # 60
          THEN [rtc EXCEPT !.cycles = c1, !.ticks = 0,
                           !.internal_state.seconds = sec]
          ELSE IF min # 60
          THEN [rtc EXCEPT !.cycles = c1, !.ticks = 0,
                           !.internal_state.seconds = 0,
                           !.internal_state.minutes = min]
          ELSE IF hrs # 24
          THEN [rtc EXCEPT !.cycles = c1, !.ticks = 0,
                           !.internal_state.seconds = 0,
                           !.internal_state.minutes = 0,
                           !.internal_state.hours = hrs]
          ELSE [rtc EXCEPT !.cycles = c1, !.ticks = 0,
                           !.internal_state.seconds = 0,
                           !.internal_state.minutes = 0,
                           !.internal_state.hours = 0,
                           !.internal_state.days = IF day = 512 THEN 0 ELSE day,
                           !.carry = IF day = 512 THEN TRUE ELSE @]

\* Rtc::increment: 128 cycles make a tick, 32768 ticks a second.
RtcIncrement(rtc) ==
    IF rtc.halted THEN rtc
    ELSE
      LET cyc == (rtc.cycles + 4) % 256
          c1  == IF cyc = 128 THEN 0 ELSE cyc
          t1  == IF cyc = 128 THEN (rtc.ticks + 1) % 65536 ELSE rtc.ticks
          i   == rtc.internal_state
          sec == (i.seconds + 1) % 64
          min == (i.minutes + 1) % 64
          hrs == (i.hours + 1) % 32
          day == (i.days + 1) % 65536
      IN  IF t1 # 32768 THEN [rtc EXCEPT !.cycles = c1, !.ticks = t1]
          ELSE IF sec # 60
          THEN [rtc EXCEPT !.cycles = c1, !.ticks = 0,
                           !.internal_state.seconds = sec]
          ELSE IF min # 60
          THEN [rtc EXCEPT !.cycles = c1, !.ticks = 0,
                           !.internal_state.seconds = 0,
                           !.internal_state.minutes = min]
          ELSE IF hrs # 24
          THEN [rtc EXCEPT !.cycles = c1, !.ticks = 0,
                           !.internal_state.seconds = 0,
                           !.internal_state.minutes = 0,
                           !.internal_state.hours = hrs]
          ELSE [rtc EXCEPT !.cycles = c1, !.ticks = 0,
                           !.internal_state.seconds = 0,
                           !.internal_state.minutes = 0,
                           !.internal_state.hours = 0,
                           !.internal_state.days = IF day = 512 THEN 0 ELSE day,
                           !.carry = IF day = 512 THEN TRUE ELSE @]

\* MBC3RamRtc::new.
Mbc3RamRtcNew(rom_len, ram_size) ==
    [ mbc3 |-> Mbc3New(rom_len), ram |-> <<>>, ram_len |-> ram_size,
      rtc |-> RtcDefault, register |-> 0, ram_enabled |-> FALSE,
      panicked |-> FALSE ]

\* <MBC3RamRtc as Mapper>::read for A000-BFFF: <<value, panicked>>.
Mbc3RamRtcRead(c, addr) ==
    LET reg == c.register % 16
        idx == reg * 8192 + addr - 40960
    IN  IF ~c.ram_enabled THEN <<255, FALSE>>
        ELSE IF reg \in 0..3
             THEN (IF idx >= c.ram_len THEN <<0, TRUE>>
                   ELSE <<IF idx \in DOMAIN c.ram THEN c.ram[idx] ELSE 0, FALSE>>)
        ELSE IF reg \in 8..12 THEN <<RtcRead(c.rtc, reg), FALSE>>
        ELSE <<255, FALSE>>

\* <MBC3RamRtc as Mapper>::write.
Mbc3RamRtcWrite(c, addr, val) ==
    CASE addr \in 0..8191 -> [c EXCEPT !.ram_enabled = (val % 16 = 10)]
      [] addr \in 8192..16383 -> [c EXCEPT !.mbc3 = Mbc3Write(c.mbc3, addr, val)]
      [] addr \in 16384..24575 -> [c EXCEPT !.register = val]
      [] addr \in 24576..32767 ->
           IF val = 0 /\ ~c.rtc.prepare_latch
           THEN [c EXCEPT !.rtc.prepare_latch = TRUE]
           ELSE IF val = 1 /\ c.rtc.prepare_latch
           THEN [c EXCEPT !.rtc.prepare_latch = FALSE,
                          !.rtc.latched_state = c.rtc.internal_state]
           ELSE c
      [] addr \in 40960..49151 ->
           LET reg == c.register % 16
               idx == reg * 8192 + addr - 40960
           IN  IF ~c.ram_enabled THEN c
               ELSE IF reg \in 0..3
                    THEN (IF idx >= c.ram_len THEN [c EXCEPT !.panicked = TRUE]
                          ELSE [c EXCEPT !.ram = (idx :> val) @@ @])
               ELSE IF reg \in 8..12
                    THEN [c EXCEPT !.rtc = RtcWrite(c.rtc, reg, val)]
               ELSE c
      [] OTHER -> c

\* <MBC3RamRtc as Mapper>::save_external_ram: the file holds the RAM bytes,
\* then the internal and the latched RTC state of 5 bytes each.
save_external_ram(c) ==
    [ ram |-> c.ram, ram_len |-> c.ram_len,
      rtc |-> as_bytes(c.rtc.internal_state) \o as_bytes(c.rtc.latched_state) ]

\* <MBC3RamRtc as Mapper>::load_external_ram from an existing file.
load_external_ram(c, file) ==
    [c EXCEPT !.ram = file.ram,
              !.rtc.internal_state = from_bytes(SubSeq(file.rtc, 1, 5)),
              !.rtc.latched_state = from_bytes(SubSeq(file.rtc, 6, 10))]

(***************************************************************************)
(* MBC5 (src/src/bus/cartridge/mbc5.rs, struct MBC5).                      *)
(***************************************************************************)

\* MBC5::new.
Mbc5New(num_banks) == [ num_banks |-> num_banks, bank |-> 1 ]

\* <MBC5 as Mapper>::read for 0000-7FFF.
Mbc5Read(c, addr) ==
    IF addr < 16384 THEN Rom(addr) ELSE Rom(c.bank * 16384 + addr - 16384)

\* <MBC5 as Mapper>::write with the zero-becomes-one rule of MBC1 applied
\* to the low byte.
Mbc5Write_zero_to_one(c, addr, val) ==
    CASE addr \in 8192..12287 ->
           [c EXCEPT !.bank = ((c.bank \div 256) * 256
                                 + (IF val = 0 THEN 1 ELSE val)) % c.num_banks]
      [] addr \in 12288..16383 ->
           [c EXCEPT !.bank = ((val % 2) * 256 + (c.bank % 256)) % c.num_banks]
      [] OTHER -> c

\* <MBC5 as Mapper>::write: (bank & 0x100) | val and ((val & 1) << 8) |
\* (bank & 0xff), each reduced modulo num_banks.
Mbc5Write(c, addr, val) ==
    CASE addr \in 8192..12287 ->
           [c EXCEPT !.bank = (((c.bank \div 256) % 2) * 256 + val) % c.num_banks]
      [] addr \in 12288..16383 ->
           [c EXCEPT !.bank = ((val % 2) * 256 + (c.bank % 256)) % c.num_banks]
      [] OTHER -> c

(***************************************************************************)
(* The OAM DMA engine of the memory bus (src/src/bus/mod.rs, struct Dma,   *)
(* MemoryBus::tick_dma) and the CPU's view of OAM and high RAM.  Option<u8>*)
(* is <<>> for None and <<slot>> for Some(slot).                           *)
(***************************************************************************)

\* The last OAM slot: Dma::tick ends the transfer after copying it.
LastSlot == 159

\* MemoryBus::wram as the program left it: byte i of work RAM.
Wram(i) == (i + (i \div 256) * 17 + 1) % 256

\* MemoryBus::new: Dma::default, OAM and high RAM zeroed.
BusNew ==
    [ dma |-> [base |-> 0, enabled |-> FALSE, slot |-> <<>>],
      oam_ram |-> [i \in 0..LastSlot |-> 0], hram |-> <<>>, writes |-> 0 ]

\* Dma::tick: <<dma after the tick, the (slot, addr) returned or <<>>>>.
DmaTick(dma) ==
    IF ~dma.enabled THEN <<dma, <<>>>>
    ELSE IF dma.slot = <<>> THEN <<[dma EXCEPT !.slot = <<0>>], <<>>>>
    ELSE LET slot == dma.slot[1]
             addr == dma.base * 256 + slot
         IN  IF slot = LastSlot
             THEN <<[dma EXCEPT !.enabled = FALSE, !.slot = <<>>], <<slot, addr>>>>
             ELSE <<[dma EXCEPT !.slot = <<slot + 1>>], <<slot, addr>>>>

\* MemoryBus::tick_dma for a source in work RAM or its echo (C000-FFFF):
\* the byte is read and stored with Ppu::write_dma.
tick_dma(b) ==
    LET t == DmaTick(b.dma)
    IN  IF t[2] = <<>> THEN [b EXCEPT !.dma = t[1]]
        ELSE [b EXCEPT !.dma = t[1],
                       !.oam_ram[t[2][1]] = Wram(t[2][2] % 8192)]

\* MemoryBus::read without the test of dma.slot in line 120: OAM is read
\* whether or not a transfer is running.
OamHramRead_unblocked(b, addr, mode) ==
    IF addr \in 65024..65183
    THEN (IF mode \in {OamScan, Drawing} THEN 255 ELSE b.oam_ram[addr - 65024])
    ELSE IF addr \in DOMAIN b.hram THEN b.hram[addr] ELSE 0

\* MemoryBus::read for OAM (Ppu::read_oam in PPU mode `mode`) and high RAM.
OamHramRead(b, addr, mode) ==
    IF addr \in 65024..65183
    THEN (IF b.dma.slot # <<>> THEN 255
          ELSE IF mode \in {OamScan, Drawing} THEN 255
          ELSE b.oam_ram[addr - 65024])
    ELSE IF addr \in DOMAIN b.hram THEN b.hram[addr] ELSE 0

\* MemoryBus::write for OAM (Ppu::write_oam in PPU mode `mode`), high RAM
\* and FF46.
OamHramWrite(b, addr, val, mode) ==
    CASE addr \in 65024..65183 ->
           IF b.dma.slot = <<>> /\ mode \notin {OamScan, Drawing}
           THEN [b EXCEPT !.oam_ram[addr % 256] = val]
           ELSE b
      [] addr \in 65408..65534 -> [b EXCEPT !.hram = (addr :> val) @@ @]
      [] addr = 65350 ->
           [b EXCEPT !.dma.base = val, !.dma.enabled = TRUE, !.writes = @ + 1]
      [] OTHER -> b

(***************************************************************************)
(* The APU (apu/mod.rs, apu/channel1.rs .. channel4.rs, apu/utils.rs): the *)
(* registers FF10-FF26, wave RAM, and the frame sequencer.  A u8 or u16    *)
(* field holds a natural number; Option is <<>> or <<x>>.                  *)
(***************************************************************************)

\* LengthCounter::clock: the counter and whether it reached 0.
LengthClock(l) ==
    IF l.enable
    THEN LET t == IF l.timer = 0 THEN 0 ELSE l.timer - 1
         IN  <<[l EXCEPT !.timer = t], t = 0>>
    ELSE <<l, FALSE>>

\* LengthCounter<N>::trigger.
LengthTrigger(l, N) ==
    IF l.timer = 0
    THEN [l EXCEPT !.timer = IF l.tick /\ l.enable THEN N - 1 ELSE N]
    ELSE l

\* LengthCounter::set_enable: the counter and whether the extra clock
\* brought it to 0.
set_enable(l, enable) ==
    LET extra_clock == l.tick /\ enable /\ ~l.enable
        l1 == [l EXCEPT !.enable = enable]
    IN  IF extra_clock THEN LengthClock(l1) ELSE <<l1, FALSE>>

\* LengthCounter::tick: the counter is clocked on every second call.
LengthTick(l) ==
    LET l1 == [l EXCEPT !.tick = ~l.tick]
    IN  IF l1.tick THEN LengthClock(l1) ELSE <<l1, FALSE>>

\* VolumeEnvelope::get_pace and SweepEnvelope::get_pace.
get_pace(pace) == IF pace = 0 THEN 8 ELSE pace

\* VolumeEnvelope::trigger.
VolumeTrigger(v) ==
    [v EXCEPT !.level = v.initial_level, !.pace_timer = get_pace(v.pace)]

\* VolumeEnvelope::tick; the u8 subtraction wraps.
VolumeTick(v) ==
    IF v.pace # 0
    THEN LET t == (v.pace_timer + 255) % 256
         IN  IF t = 0
             THEN [v EXCEPT !.level = IF v.direction
                                      THEN (IF v.level + 1 > 15 THEN 15 ELSE v.level + 1)
                                      ELSE (IF v.level = 0 THEN 0 ELSE v.level - 1),
                            !.pace_timer = get_pace(v.pace)]
             ELSE [v EXCEPT !.pace_timer = t]
    ELSE v

\* A next_period that does not record the subtraction.
next_period_unrecorded(s) ==
    LET delta == s.shadow_period \div (2 ^ s.step)
    IN  IF s.direction
        THEN <<s, (s.shadow_period + 65536 - delta) % 65536>>
        ELSE <<s, (s.shadow_period + delta) % 65536>>

\* SweepEnvelope::next_period: the envelope (negate_mode is set by a
\* subtraction) and the period computed.
next_period(s) ==
    LET delta == s.shadow_period \div (2 ^ s.step)
    IN  IF s.direction
        THEN <<[s EXCEPT !.negate_mode = TRUE],
               (s.shadow_period + 65536 - delta) % 65536>>
        ELSE <<s, (s.shadow_period + delta) % 65536>>

\* SweepEnvelope::trigger: the envelope and whether the period overflows.
SweepTrigger(s, period) ==
    LET s1 == [s EXCEPT !.shadow_period = period,
                        !.pace_timer = get_pace(s.pace),
                        !.enabled = (s.pace # 0 \/ s.step # 0),
                        !.negate_mode = FALSE]
    IN  IF s1.step # 0
        THEN LET np == next_period(s1) IN <<np[1], np[2] > 2047>>
        ELSE <<s1, FALSE>>

\* SweepEnvelope::tick: the envelope and None (<<>>) or
\* Some((next_period, disable)) (<< <<next_period, disable>> >>).
SweepTick(s) ==
    IF s.pace_timer # 0
    THEN IF s.pace_timer - 1 = 0
         THEN LET s2 == [s EXCEPT !.pace_timer = get_pace(s.pace)]
              IN  IF s2.enabled /\ s2.pace # 0
                  THEN LET np == next_period(s2)
                       IN  IF np[2] > 2047
                           THEN <<np[1], << <<<<>>, TRUE>> >> >>
                           ELSE IF s2.step > 0
                           THEN LET np2 == next_period(
                                        [np[1] EXCEPT !.shadow_period = np[2]])
                                IN  <<np2[1], << << <<np[2]>>, np2[2] > 2047 >> >> >>
                           ELSE <<np[1], <<>> >>
                  ELSE <<s2, <<>> >>
         ELSE <<[s EXCEPT !.pace_timer = s.pace_timer - 1], <<>> >>
    ELSE <<s, <<>> >>

\* The byte (initial_level << 4) | (direction << 3) | pace of NR12, NR22
\* and NR42.
VolumeByte(v) == v.initial_level * 16 + (IF v.direction THEN 8 ELSE 0) + v.pace

\* The write to NR12, NR22 and NR42 of a channel: envelope fields, DAC.
VolumeWrite(ch, val) ==
    LET dac == (val \div 8) # 0
    IN  [ch EXCEPT !.volume.pace = val % 8,
                   !.volume.direction = Bit(val, 3),
                   !.volume.initial_level = val \div 16,
                   !.dac_enabled = dac,
                   !.trigger = IF dac THEN ch.trigger ELSE FALSE]

\* Channel1::read.
Channel1Read(ch, addr) ==
    CASE addr = 65296 -> Or8(ch.sweep.pace * 16
                               + (IF ch.sweep.direction THEN 8 ELSE 0)
                               + ch.sweep.step, 128)
      [] addr = 65297 -> ch.duty * 64 + 63
      [] addr = 65298 -> VolumeByte(ch.volume)
      [] addr = 65299 -> 255
      [] addr = 65300 -> (IF ch.length.enable THEN 64 ELSE 0) + 191

\* Channel1::write.
Channel1Write(ch, addr, val) ==
    CASE addr = 65296 ->
           [ch EXCEPT !.sweep.step = val % 8,
                      !.sweep.direction = Bit(val, 3),
                      !.sweep.pace = (val \div 16) % 8,
                      !.trigger = IF ch.sweep.negate_mode /\ ~Bit(val, 3)
                                  THEN FALSE ELSE ch.trigger]
      [] addr = 65297 ->
           [ch EXCEPT !.length.timer = 64 - (val % 64),
                      !.duty = (val \div 64) % 4]
      [] addr = 65298 -> VolumeWrite(ch, val)
      [] addr = 65299 ->
           [ch EXCEPT !.period = (ch.period \div 256) * 256 + val]
      [] addr = 65300 ->
           LET period == (ch.period % 256) + (val % 8) * 256
               c1 == [ch EXCEPT !.period = period,
                                !.length.enable = Bit(val, 6)]
               sw == SweepTrigger(c1.sweep, period)
           IN  IF Bit(val, 7) /\ c1.dac_enabled
               THEN [c1 EXCEPT !.trigger = ~sw[2],
                               !.period_counter = period,
                               !.length = LengthTrigger(c1.length, 64),
                               !.volume = VolumeTrigger(c1.volume),
                               !.sweep = sw[1]]
               ELSE c1

\* Channel1::tick_frame_sequencer.
Channel1FrameStep(ch) ==
    LET fs == (ch.frame_sequence + 1) % 8
        lt == IF fs % 2 = 0 THEN LengthTick(ch.length) ELSE <<ch.length, FALSE>>
        c1 == [ch EXCEPT !.frame_sequence = fs,
                         !.length = lt[1],
                         !.trigger = IF lt[2] THEN FALSE ELSE ch.trigger,
                         !.volume = IF fs = 7 THEN VolumeTick(ch.volume)
                                    ELSE ch.volume]
        st == IF fs \in {2, 6} THEN SweepTick(c1.sweep) ELSE <<c1.sweep, <<>> >>
    IN  IF st[2] = <<>>
        THEN [c1 EXCEPT !.sweep = st[1]]
        ELSE [c1 EXCEPT !.sweep = st[1],
                        !.period = IF st[2][1][1] = <<>> THEN c1.period
                                   ELSE st[2][1][1][1],
                        !.trigger = IF st[2][1][2] THEN FALSE ELSE c1.trigger]

\* Channel2::read.
Channel2Read(ch, addr) ==
    CASE addr = 65302 -> ch.duty * 64 + 63
      [] addr = 65303 -> VolumeByte(ch.volume)
      [] addr = 65304 -> 255
      [] addr = 65305 -> (IF ch.length.enable THEN 64 ELSE 0) + 191

\* Channel2::write.
Channel2Write(ch, addr, val) ==
    CASE addr = 65302 ->
           [ch EXCEPT !.length.timer = 64 - (val % 64),
                      !.duty = (val \div 64) % 4]
      [] addr = 65303 -> VolumeWrite(ch, val)
      [] addr = 65304 ->
           [ch EXCEPT !.period = (ch.period \div 256) * 256 + val]
      [] addr = 65305 ->
           LET period == (ch.period % 256) + (val % 8) * 256
               c1 == [ch EXCEPT !.period = period,
                                !.length.enable = Bit(val, 6)]
           IN  IF Bit(val, 7) /\ c1.dac_enabled
               THEN [c1 EXCEPT !.trigger = TRUE,
                               !.period_counter = period,
                               !.length = LengthTrigger(c1.length, 64),
                               !.volume = VolumeTrigger(c1.volume)]
               ELSE c1

\* Channel2::tick_frame_sequencer and Channel4::tick_frame_sequencer.
Channel24FrameStep(ch) ==
    LET fs == (ch.frame_sequence + 1) % 8
        lt == IF fs % 2 = 0 THEN LengthTick(ch.length) ELSE <<ch.length, FALSE>>
    IN  [ch EXCEPT !.frame_sequence = fs,
                   !.length = lt[1],
                   !.trigger = IF lt[2] THEN FALSE ELSE ch.trigger,
                   !.volume = IF fs = 7 THEN VolumeTick(ch.volume)
                              ELSE ch.volume]

\* Channel3::read.
Channel3Read(ch, addr) ==
    CASE addr = 65306 -> (IF ch.dac_enabled THEN 128 ELSE 0) + 127
      [] addr = 65307 -> 255
      [] addr = 65308 -> Or8((ch.volume * 32) % 256, 159)
      [] addr = 65309 -> 255
      [] addr = 65310 -> (IF ch.length.enable THEN 64 ELSE 0) + 191

\* Channel3::write.
Channel3Write(ch, addr, val) ==
    CASE addr = 65306 ->
           [ch EXCEPT !.dac_enabled = Bit(val, 7),
                      !.trigger = IF Bit(val, 7) THEN ch.trigger ELSE FALSE]
      [] addr = 65307 -> [ch EXCEPT !.length.timer = 256 - val]
      [] addr = 65308 -> [ch EXCEPT !.volume = (val \div 32) % 4]
      [] addr = 65309 ->
           [ch EXCEPT !.period = (ch.period \div 256) * 256 + val]
      [] addr = 65310 ->
           LET se == set_enable(ch.length, Bit(val, 6))
               c1 == [ch EXCEPT !.period = (ch.period % 256) + (val % 8) * 256,
                                !.length = se[1],
                                !.trigger = IF se[2] THEN FALSE ELSE ch.trigger]
           IN  IF Bit(val, 7)
               THEN [c1 EXCEPT !.trigger = IF c1.dac_enabled THEN TRUE
                                           ELSE c1.trigger,
                               !.length = LengthTrigger(c1.length, 256)]
               ELSE c1

\* Channel3::tick_frame_sequencer.
Channel3FrameStep(ch) ==
    LET lt == LengthTick(ch.length)
    IN  [ch EXCEPT !.length = lt[1],
                   !.trigger = IF lt[2] THEN FALSE ELSE ch.trigger]

\* Channel4::read.
Channel4Read(ch, addr) ==
    CASE addr = 65312 -> 255
      [] addr = 65313 -> VolumeByte(ch.volume)
      [] addr = 65314 -> ((ch.clock_shift * 16) % 256)
                           + (IF ch.lfsr_width THEN 8 ELSE 0) + ch.clock_divider
      [] addr = 65315 -> (IF ch.length.enable THEN 64 ELSE 0) + 191

\* Channel4::write.
Channel4Write(ch, addr, val) ==
    CASE addr = 65312 -> [ch EXCEPT !.length.timer = 64 - (val % 64)]
      [] addr = 65313 -> VolumeWrite(ch, val)
      [] addr = 65314 ->
           [ch EXCEPT !.clock_divider = val % 8,
                      !.lfsr_width = Bit(val, 3),
                      !.clock_shift = val \div 16]
      [] addr = 65315 ->
           LET c1 == [ch EXCEPT !.length.enable = Bit(val, 6)]
           IN  IF Bit(val, 7) /\ c1.dac_enabled
               THEN [c1 EXCEPT !.trigger = TRUE,
                               !.lfsr = 32767,
                               !.length = LengthTrigger(c1.length, 64),
                               !.volume = VolumeTrigger(c1.volume)]
               ELSE c1

\* Panning::new: the (left, right) pair of each channel.
PanningNew(val) ==
    [channel1 |-> <<Bit(val, 4), Bit(val, 0)>>,
     channel2 |-> <<Bit(val, 5), Bit(val, 1)>>,
     channel3 |-> <<Bit(val, 6), Bit(val, 2)>>,
     channel4 |-> <<Bit(val, 7), Bit(val, 3)>>]

\* Panning::as_u8.
as_u8(p) ==
    (IF p.channel4[1] THEN 128 ELSE 0) + (IF p.channel3[1] THEN 64 ELSE 0)
  + (IF p.channel2[1] THEN 32 ELSE 0) + (IF p.channel1[1] THEN 16 ELSE 0)
  + (IF p.channel4[2] THEN 8 ELSE 0) + (IF p.channel3[2] THEN 4 ELSE 0)
  + (IF p.channel2[2] THEN 2 ELSE 0) + (IF p.channel1[2] THEN 1 ELSE 0)

\* Apu::new: every channel, the panning and the envelopes are Default,
\* where LengthCounter::default has tick = true.  writes and steps
\* count the register writes that took effect and the frame-sequencer
\* steps of a run of the model.
ApuNew ==
    LET len0 == [enable |-> FALSE, timer |-> 0, tick |-> TRUE]
        vol0 == [pace |-> 0, direction |-> FALSE, initial_level |-> 0,
                   level |-> 0, pace_timer |-> 0]
        sweep0 == [step |-> 0, direction |-> FALSE, pace |-> 0,
                  shadow_period |-> 0, pace_timer |-> 0, enabled |-> FALSE,
                  negate_mode |-> FALSE]
    IN  [channel1 |-> [duty |-> 0, period |-> 0, trigger |-> FALSE,
                       duty_position |-> 0, period_counter |-> 0,
                       frame_sequence |-> 0, length |-> len0,
                       volume |-> vol0, sweep |-> sweep0,
                       dac_enabled |-> FALSE],
         channel2 |-> [duty |-> 0, period |-> 0, trigger |-> FALSE,
                       duty_position |-> 0, period_counter |-> 0,
                       frame_sequence |-> 0, length |-> len0,
                       volume |-> vol0, dac_enabled |-> FALSE],
         channel3 |-> [dac_enabled |-> FALSE, volume |-> 0, period |-> 0,
                       trigger |-> FALSE, sample_index |-> 0,
                       period_counter |-> 0, length |-> len0],
         channel4 |-> [clock_divider |-> 0, lfsr_width |-> FALSE,
                       clock_shift |-> 0, trigger |-> FALSE, lfsr |-> 0,
                       period_counter |-> 0, frame_sequence |-> 0,
                       length |-> len0, volume |-> vol0,
                       dac_enabled |-> FALSE],
         panning |-> PanningNew(0),
         aram |-> [i \in 0..15 |-> 0],
         vin_left |-> FALSE, left_volume |-> 0,
         vin_right |-> FALSE, right_volume |-> 0,
         master_enable |-> FALSE,
         writes |-> 0, steps |-> 0]

\* Apu::read.
ApuRead(a, addr) ==
    CASE addr \in 65296..65300 -> Channel1Read(a.channel1, addr)
      [] addr \in 65302..65305 -> Channel2Read(a.channel2, addr)
      [] addr \in 65306..65310 -> Channel3Read(a.channel3, addr)
      [] addr \in 65312..65315 -> Channel4Read(a.channel4, addr)
      [] addr = 65316 ->
           (IF a.vin_left THEN 128 ELSE 0) + a.left_volume * 16
         + (IF a.vin_right THEN 8 ELSE 0) + a.right_volume
      [] addr = 65317 -> as_u8(a.panning)
      [] addr = 65318 ->
           (IF a.master_enable THEN 128 ELSE 0) + 112
         + (IF a.channel4.trigger THEN 8 ELSE 0)
         + (IF a.channel3.trigger THEN 4 ELSE 0)
         + (IF a.channel2.trigger THEN 2 ELSE 0)
         + (IF a.channel1.trigger THEN 1 ELSE 0)
      [] addr \in 65328..65343 -> a.aram[addr - 65328]

\* Apu::write after its early return: the register written.
ApuWriteRegister(a, addr, val) ==
    CASE addr \in 65296..65300 ->
           [a EXCEPT !.channel1 = Channel1Write(a.channel1, addr, val)]
      [] addr \in 65302..65305 ->
           [a EXCEPT !.channel2 = Channel2Write(a.channel2, addr, val)]
      [] addr \in 65306..65310 ->
           [a EXCEPT !.channel3 = Channel3Write(a.channel3, addr, val)]
      [] addr \in 65312..65315 ->
           [a EXCEPT !.channel4 = Channel4Write(a.channel4, addr, val)]
      [] addr = 65316 ->
           [a EXCEPT !.vin_left = Bit(val, 7),
                     !.left_volume = (val \div 16) % 8,
                     !.vin_right = Bit(val, 3),
                     !.right_volume = val % 8]
      [] addr = 65317 -> [a EXCEPT !.panning = PanningNew(val)]
      [] addr = 65318 ->
           IF Bit(val, 7)
           THEN [a EXCEPT !.master_enable = TRUE]
           ELSE [a EXCEPT !.master_enable = FALSE,
                          !.channel1 = ApuNew.channel1,
                          !.channel2 = ApuNew.channel2,
                          !.channel3 = ApuNew.channel3,
                          !.channel4 = ApuNew.channel4,
                          !.panning = PanningNew(0),
                          !.vin_left = FALSE, !.left_volume = 0,
                          !.vin_right = FALSE, !.right_volume = 0]
      [] addr \in 65328..65343 ->
           [a EXCEPT !.aram[addr - 65328] = val]

\* An Apu::write that takes every write while the APU is powered off.
ApuWrite_not_discarded(a, addr, val) == ApuWriteRegister(a, addr, val)

\* Apu::write: the early return while powered off.
ApuWrite(a, addr, val) ==
    IF ~(a.master_enable \/ addr = 65318 \/ addr \in 65328..65343)
    THEN a
    ELSE ApuWriteRegister(a, addr, val)

\* Apu::tick_frame_sequencer.
tick_frame_sequencer(a) ==
    [a EXCEPT !.channel1 = Channel1FrameStep(a.channel1),
              !.channel2 = Channel24FrameStep(a.channel2),
              !.channel3 = Channel3FrameStep(a.channel3),
              !.channel4 = Channel24FrameStep(a.channel4)]

(***************************************************************************)
(* The joypad (bus/joypad.rs): eight buttons, the two row selections, and  *)
(* the pending interrupt request.                                          *)
(***************************************************************************)

\* enum JoypadButton; the field of struct Joypad has the same name in
\* lower case.
JoypadButton == {"up", "down", "left", "right", "a", "b", "start", "select"}

\* Joypad::default: nothing pressed, both rows selected.
JoypadDefault ==
    [up |-> FALSE, down |-> FALSE, left |-> FALSE, right |-> FALSE,
     a |-> FALSE, b |-> FALSE, start |-> FALSE, select |-> FALSE,
     buttons |-> TRUE, dpad |-> TRUE, interrupt |-> FALSE]

\* Joypad::read_nibble: the low nibble of FF00.
read_nibble(j) ==
    LET d == IF j.dpad
             THEN (IF j.down THEN 8 ELSE 0) + (IF j.up THEN 4 ELSE 0)
                + (IF j.left THEN 2 ELSE 0) + (IF j.right THEN 1 ELSE 0)
             ELSE 0
        n == IF j.buttons
             THEN Or8(d, (IF j.start THEN 8 ELSE 0) + (IF j.select THEN 4 ELSE 0)
                       + (IF j.b THEN 2 ELSE 0) + (IF j.a THEN 1 ELSE 0))
             ELSE d
    IN  15 - n

\* Joypad::update_button.
update_button(j, button, pressed) ==
    LET old_nibble == read_nibble(j)
        j1 == [j EXCEPT ![button] = pressed]
        new_nibble == read_nibble(j1)
    IN  IF old_nibble = 15 /\ new_nibble # 15
        THEN [j1 EXCEPT !.interrupt = TRUE]
        ELSE j1

\* Joypad::write.
JoypadWrite(j, val) ==
    LET old_nibble == read_nibble(j)
        j1 == [j EXCEPT !.buttons = ~Bit(val, 5), !.dpad = ~Bit(val, 4)]
        new_nibble == read_nibble(j1)
    IN  IF old_nibble = 15 /\ new_nibble # 15
        THEN [j1 EXCEPT !.interrupt = TRUE]
        ELSE j1

(***************************************************************************)
(* The host's redraw loop (display.rs).  Time is counted in units; elapsed *)
(* is Instant::elapsed of FrameLimiter::instant, kept up to MaxElapsed.    *)
(***************************************************************************)

\* The longest time the model measures.
MaxElapsed == 6

\* Time passing: Instant::elapsed grows.
Later(elapsed, d) == IF elapsed + d > MaxElapsed THEN MaxElapsed ELSE elapsed + d

\* Window::new: the FrameLimiter, and no draw_frame call yet.
HostNew ==
    [limiter |-> [limit_framerate |-> TRUE, frame_time |-> <<>>, elapsed |-> 0],
     runs |-> <<>>]

\* FrameLimiter::run with a task that takes cost units of time: the
\* limiter and the number of calls of the task.
FrameLimiterRun(l, cost) ==
    LET frame_time == IF l.frame_time = <<>> THEN 0 ELSE l.frame_time[1]
        n == IF l.elapsed >= frame_time THEN 0
             ELSE IF l.limit_framerate THEN 1
             ELSE (frame_time - l.elapsed + cost - 1) \div cost
    IN  <<[l EXCEPT !.elapsed = Later(l.elapsed, n * cost)], n>>

\* FrameLimiter::tick: the frame time is measured once, the instant is
\* reset.
FrameLimiterTick(l) ==
    [l EXCEPT !.frame_time = IF l.frame_time = <<>> THEN <<l.elapsed>> ELSE @,
              !.elapsed = 0]

\* Display::draw_frame: run, render (in render units of time), tick.
draw_frame(h, cost, render) ==
    LET r == FrameLimiterRun(h.limiter, cost)
    IN  [limiter |-> FrameLimiterTick([r[1] EXCEPT !.elapsed = Later(@, render)]),
         runs |-> <<r[2]>>]

(***************************************************************************)
(* The audio hand-off (apu/mod.rs): Sampler::push_sample on the emulator   *)
(* thread, the mpsc channel of Apu::new, and the audio callback that       *)
(* receives from it.  Sample values are not modelled, only their number.   *)
(***************************************************************************)

\* The block of Sampler::sample_buffer and the samples sent for one block.
BlockLen == 8192
BlockSamples == 375

\* Sampler::new, and the empty channel of Apu::new.  due: whether
\* instant.elapsed() has reached 1/128 s.
SamplerNew ==
    [len |-> 0, limit_framerate |-> TRUE, due |-> FALSE, queued |-> 0]

\* Sampler::push_sample: the sample is kept if the buffer is not full; a
\* full buffer is averaged to 375 samples, which are sent, and cleared.
\* Sender::send on the channel of std::sync::mpsc::channel() queues the
\* sample and returns.
push_sample(s) ==
    LET len == IF s.len < BlockLen THEN s.len + 1 ELSE s.len
    IN  IF len = BlockLen /\ (s.limit_framerate \/ s.due)
        THEN [s EXCEPT !.len = 0, !.due = FALSE,
                       !.queued = s.queued + BlockSamples]
        ELSE [s EXCEPT !.len = len]

(***************************************************************************)
(* The OAM scan (Ppu::cycle, cycles 0..19 of a visible line).  oam is       *)
(* Ppu::oam_ram as one <<y, x>> pair per entry, indexed 0..39; a sprite of   *)
(* oam_sprites is [x, y, idx], where idx is the OAM index it was fetched     *)
(* from (kept to state the order; struct Sprite has no such field).          *)
(***************************************************************************)
OamEntries == 40
MaxSprites == 10

ScanNew ==
    [oam |-> [i \in 0..(OamEntries - 1) |-> <<0, 0>>], tall |-> FALSE,
     LY |-> 0, clocks |-> 0, oam_sprites |-> <<>>]

\* Ppu::fetch_sprite: the sprite of entry idx if its x is positive and
\* LY + 16 lies in y .. y + height (u8 arithmetic: a wrapped end gives an
\* empty range), as a sequence of at most one sprite.
fetch_sprite(p, idx) ==
    LET sprite_height == IF p.tall THEN 16 ELSE 8
        sy == p.oam[idx][1]
        sx == p.oam[idx][2]
        y  == (p.LY + 16) % 256
    IN  IF sx > 0 /\ sy <= y /\ y < ((sy + sprite_height) % 256)
        THEN << [x |-> sx, y |-> sy, idx |-> idx] >>
        ELSE <<>>

\* binary_search_by(|s| sprite.x.cmp(&s.x)).unwrap_or_else(|e| e), as
\* 1-based positions: the comparator calls an element with a larger x
\* "less", so the list is kept by descending x; with elements of equal x
\* the search returns the index of any one of them.
search_positions(list, x) ==
    LET found == { i \in 1..Len(list) : list[i].x = x }
    IN  IF found # {} THEN found
        ELSE { 1 + Cardinality({ i \in 1..Len(list) : list[i].x > x }) }

\* The body of the loop of the OAM scan for entry idx: the lists
\* oam_sprites can be afterwards.
oam_scan_fetch(p, list, idx) ==
    LET f == fetch_sprite(p, idx)
    IN  IF f # <<>> /\ Len(list) < MaxSprites
        THEN { SubSeq(list, 1, pos - 1) \o f \o SubSeq(list, pos, Len(list)) :
                   pos \in search_positions(list, f[1].x) }
        ELSE { list }

(***************************************************************************)
(* The opcode table of Cpu::decode_instr: the Instruction variant of every *)
(* first byte (operands left out), "Crash" where it bails, and the variant *)
(* of every byte after CB.                                                 *)
(***************************************************************************)
OpcNew == [byte |-> 0, second |-> 0, instr |-> "", stage |-> "fetch"]

\* The inner match of the 0xcb arm.
decode_prefixed(second_byte) ==
    CASE second_byte \in 0..7 -> "Rlc"
      [] second_byte \in 8..15 -> "Rrc"
      [] second_byte \in 16..23 -> "Rl"
      [] second_byte \in 24..31 -> "Rr"
      [] second_byte \in 32..39 -> "Sla"
      [] second_byte \in 40..47 -> "Sra"
      [] second_byte \in 48..55 -> "Swap"
      [] second_byte \in 56..63 -> "Srl"
      [] second_byte \in 64..127 -> "Bit"
      [] second_byte \in 128..191 -> "Res"
      [] second_byte \in 192..255 -> "Set"

\* The outer match, arm by arm.
decode_first(byte) ==
    CASE byte = 0 -> "Nop"
      [] byte \in {1, 17, 33, 49} -> "LdR16Imm"
      [] byte \in {2, 18, 34, 50} -> "LdIndFromA"
      [] byte \in {3, 19, 35, 51} -> "IncR16"
      [] byte \in {4, 12, 20, 28, 36, 44, 52, 60} -> "IncR8"
      [] byte \in {5, 13, 21, 29, 37, 45, 53, 61} -> "DecR8"
      [] byte \in {6, 14, 22, 30, 38, 46, 54, 62} -> "LdR8Imm"
      [] byte = 8 -> "LdStoreSP"
      [] byte \in {9, 25, 41, 57} -> "AddHL"
      [] byte \in {10, 26, 42, 58} -> "LdAFromInd"
      [] byte \in {11, 27, 43, 59} -> "DecR16"
      [] byte \in {32, 40, 48, 56} -> "Jr"
      [] byte \in (64..117) \cup (119..127) -> "LdR8"
      [] byte \in 128..191 -> "Alu"
      [] byte \in {192, 200, 208, 216} -> "Ret"
      [] byte \in {193, 209, 225, 241} -> "Pop"
      [] byte \in {194, 202, 210, 218} -> "Jp"
      [] byte \in {196, 204, 212, 220} -> "Call"
      [] byte \in {197, 213, 229, 245} -> "Push"
      [] byte \in {198, 206, 214, 222, 230, 238, 246, 254} -> "AluImm"
      [] byte \in {199, 207, 215, 223, 231, 239, 247, 255} -> "Rst"
      [] byte = 203 -> "Prefixed"
      [] byte \in {224, 226} -> "LdIoRegFromA"
      [] byte = 234 -> "LdMemFromA"
      [] byte \in {240, 242} -> "LdAFromIoReg"
      [] byte = 250 -> "LdAFromMem"
      [] byte = 7 -> "Rlca"
      [] byte = 15 -> "Rrca"
      [] byte = 16 -> "Stop"
      [] byte = 23 -> "Rla"
      [] byte = 24 -> "JrAlways"
      [] byte = 31 -> "Rra"
      [] byte = 39 -> "Daa"
      [] byte = 47 -> "Cpl"
      [] byte = 55 -> "Scf"
      [] byte = 63 -> "Ccf"
      [] byte = 118 -> "Halt"
      [] byte = 195 -> "JpAlways"
      [] byte = 201 -> "RetAlways"
      [] byte = 205 -> "CallAlways"
      [] byte = 217 -> "Reti"
      [] byte = 232 -> "AddSP"
      [] byte = 233 -> "JpHL"
      [] byte = 243 -> "Di"
      [] byte = 251 -> "Ei"
      [] byte = 248 -> "LdHLFromSP"
      [] byte = 249 -> "LdSPFromHL"
      [] byte \in CrashOpcodes -> "Crash"

\* Cpu::decode_instr for the byte at pc and the byte after it.
decode_opcode(byte, second_byte) ==
    IF decode_first(byte) = "Prefixed" THEN decode_prefixed(second_byte)
    ELSE decode_first(byte)

\* Cpu::execute_instr: the arm of Instruction::Stop panics
\* ("Unimplemented instruction"); every other arm returns.
execute_panics(instr) == instr = "Stop"

(***************************************************************************)
(* The noise generator of channel 4 (src/src/apu/channel4.rs).             *)
(***************************************************************************)
\* Channel4::default.
NoiseNew ==
    [clock_divider |-> 0, lfsr_width |-> FALSE, clock_shift |-> 0,
     trigger |-> FALSE, lfsr |-> 0, period_counter |-> 0]

\* Channel4::write for FF22.
NoiseWrite(n, val) ==
    [n EXCEPT !.clock_divider = val % 8, !.lfsr_width = Bit(val, 3),
              !.clock_shift = val \div 16]

\* Channel4::write for FF23 with bit 7 set and the DAC on, the noise
\* generator's part.
NoiseTrigger(n) == [n EXCEPT !.trigger = TRUE, !.lfsr = 32767]

\* Channel4::tick: the period counter, and at 0 the reload and one clock of
\* the LFSR (bit 0 xor bit 1 into bit 14, and into bit 6 in 7-bit mode).
Channel4Tick(n) ==
    IF ~n.trigger THEN n
    ELSE LET pc      == IF n.period_counter = 0 THEN 0 ELSE n.period_counter - 1
             divider == IF n.clock_divider = 0 THEN 2 ELSE (n.clock_divider * 4) % 256
             xor     == ((n.lfsr % 2) + ((n.lfsr \div 2) % 2)) % 2
             l1      == (n.lfsr \div 2) + xor * 16384
             l2      == IF n.lfsr_width
                        THEN l1 - ((l1 \div 64) % 2) * 64 + xor * 64
                        ELSE l1
         IN  IF pc = 0
             THEN [n EXCEPT !.period_counter = (divider * (2 ^ n.clock_shift)) % 65536,
                            !.lfsr = l2]
             ELSE [n EXCEPT !.period_counter = pc]

(***************************************************************************)
(* The Ppu::step calls counted from the call that raised Ppu::draw last.   *)
(***************************************************************************)
FrameNew == [raised |-> FALSE, since |-> 0]

\* The count after a Ppu::step call that takes the PPU from p to q.
Counted(f, p, q) ==
    IF q.draw /\ ~p.draw THEN [raised |-> TRUE, since |-> 0]
    ELSE [f EXCEPT !.since = @ + 1]

(***************************************************************************)
(* The values the CPU writes to the PPU registers in this model.           *)
(***************************************************************************)
\* The register writes the model's CPU performs: <<address, value>>.
\* LCDC is written with 0 (LCD off) and 0x91 (LCD on, background on).
PpuWrites ==
    ({65344} \X {0, 145}) \cup ({65345} \X {0, 96})
        \cup ({65348} \X {0, 200}) \cup ({65349} \X {0, 144})

(***************************************************************************)
(* The values the CPU writes to the timer registers in this model, and the *)
(* number of m-cycles a run of the timer model covers.                     *)
(***************************************************************************)
TimaVals == {128, 255}
TmaVals == {16, 255}
TacVals == {1, 5, 6}
MaxCycles == 12

\* The history kept of the timer.  phase: "wrapped" after the tick
\* in which TIMA wrapped, "cancelled" once TIMA is written after that tick,
\* "kept" after the tick that follows such a write, "idle" otherwise.
\* divw: whether FF04 has been written since the last tick with the timer
\* signal high ("hit") or low ("miss"); divBefore: the DIV value that the
\* first such write replaced.
TimerLog == [phase |-> "idle", divw |-> "none", divBefore |-> 0]

\* The code bytes of the model's programs: NOP, EI, DI, HALT, LD A,d8,
\* LDH (a8),A to TIMA, TAC, IF and IE, LD SP,d16 with a stack top in high
\* RAM, and the opcodes that crash.
ProgramCode ==
    {<<0>>, <<118>>, <<243>>, <<251>>}
        \cup {<<62, v>> : v \in {5, 255}}
        \cup {<<224, a>> : a \in {5, 7, 15, 255}}
        \cup {<<49, 254, 255>>}
        \cup {<<b>> : b \in CrashOpcodes}

\* The number of m-cycles a run of the CPU model covers.
MaxCpuCycles == 22

\* The 16-bit operands of ADD HL,rr in the model: values around the
\* carries out of bit 7, bit 11 and bit 15.
Words == {h * 256 + l : h \in {0, 7, 8, 15, 16, 127, 128, 255}, l \in {0, 1, 255}}

\* The ALU states before an operation: every A, operand and carry, and the
\* 16-bit operands of Words.
AluInputs ==
    [ a : 0..255, val : 0..255, hl : {0}, rr : {0},
      flags : [z : {FALSE}, n : {FALSE}, h : {FALSE}, c : BOOLEAN],
      op : {"None"}, a0 : {0}, hl0 : {0}, c0 : {0} ]
    \cup
    [ a : {0}, val : {0}, hl : Words, rr : Words,
      flags : [z : {FALSE}, n : {FALSE}, h : {FALSE}, c : {FALSE}],
      op : {"None"}, a0 : {0}, hl0 : {0}, c0 : {0} ]

ppuVars == <<ppu, ppuOut>>
timerVars == <<timers, timerOut, int_flag, cycles, tlog>>
cpuVars == <<registers, ime, halted, int_enable, mem, loopPos, last, fetched>>
cartVars == <<mbc1, mbcOut, written>>
coreVars == <<ppuVars, timerVars, cpuVars, alu, cartVars>>
devVars == <<busOut, mbc1ram, mbc3, rtcCart, sav, mbc5, bus, busIn, apu, joypad, host, sampler, scan, opc, noise, frame>>
peers_mbc1ram == <<mbc3, rtcCart, sav, mbc5, bus, busIn, apu, joypad, host, sampler, scan, opc, noise, frame>>
others_mbc1ram == <<coreVars, peers_mbc1ram>>
peers_mbc3 == <<mbc1ram, rtcCart, sav, mbc5, bus, busIn, apu, joypad, host, sampler, scan, opc, noise, frame>>
others_mbc3 == <<coreVars, peers_mbc3>>
peers_rtcCart == <<mbc1ram, mbc3, sav, mbc5, bus, busIn, apu, joypad, host, sampler, scan, opc, noise, frame>>
others_rtcCart == <<coreVars, peers_rtcCart>>
peers_sav == <<mbc1ram, mbc3, rtcCart, mbc5, bus, busIn, apu, joypad, host, sampler, scan, opc, noise, frame>>
others_sav == <<coreVars, peers_sav>>
peers_mbc5 == <<mbc1ram, mbc3, rtcCart, sav, bus, busIn, apu, joypad, host, sampler, scan, opc, noise, frame>>
others_mbc5 == <<coreVars, peers_mbc5>>
peers_bus == <<mbc1ram, mbc3, rtcCart, sav, mbc5, busIn, apu, joypad, host, sampler, scan, opc, noise, frame>>
others_bus == <<coreVars, peers_bus>>
peers_apu == <<mbc1ram, mbc3, rtcCart, sav, mbc5, bus, busIn, joypad, host, sampler, scan, opc, noise, frame>>
others_apu == <<coreVars, peers_apu>>
peers_joypad == <<mbc1ram, mbc3, rtcCart, sav, mbc5, bus, busIn, apu, host, sampler, scan, opc, noise, frame>>
others_joypad == <<coreVars, peers_joypad>>
peers_host == <<mbc1ram, mbc3, rtcCart, sav, mbc5, bus, busIn, apu, joypad, sampler, scan, opc, noise, frame>>
others_host == <<coreVars, peers_host>>
peers_sampler == <<mbc1ram, mbc3, rtcCart, sav, mbc5, bus, busIn, apu, joypad, host, scan, opc, noise, frame>>
others_sampler == <<coreVars, peers_sampler>>
peers_scan == <<mbc1ram, mbc3, rtcCart, sav, mbc5, bus, busIn, apu, joypad, host, sampler, opc, noise, frame>>
others_scan == <<coreVars, peers_scan>>
peers_opc == <<mbc1ram, mbc3, rtcCart, sav, mbc5, bus, busIn, apu, joypad, host, sampler, scan, noise, frame>>
others_opc == <<coreVars, peers_opc>>
peers_noise == <<mbc1ram, mbc3, rtcCart, sav, mbc5, bus, busIn, apu, joypad, host, sampler, scan, opc, frame>>
others_noise == <<coreVars, peers_noise>>
peers_frame == <<mbc1ram, mbc3, rtcCart, sav, mbc5, bus, busIn, apu, joypad, host, sampler, scan, opc, noise>>
others_frame == <<coreVars, peers_frame>>
peers_rtcCart_sav == <<mbc1ram, mbc3, mbc5, bus, busIn, apu, joypad, host, sampler, scan, opc, noise, frame>>
rest_apu == <<coreVars, mbc1ram, mbc3, rtcCart, sav, mbc5, bus, joypad, host, sampler, scan, opc, noise, frame>>
rest_joypad == <<coreVars, mbc1ram, mbc3, rtcCart, sav, mbc5, bus, apu, host, sampler, scan, opc, noise, frame>>
vars == <<coreVars, devVars>>

\* The state after Cpu::new / MemoryBus::new / Ppu::new.
InitMachine ==
    /\ ppu = PpuNew
    /\ ppuOut = [vblank |-> FALSE, stat |-> FALSE]
    /\ timers = TimersDefault
    /\ timerOut = [interrupt |-> FALSE, clocked |-> FALSE, wrapped |-> FALSE]
    /\ int_flag = 224
    /\ cycles = 0
    /\ tlog = TimerLog
    /\ registers = [a |-> 0, sp |-> 0, pc |-> 256]
    /\ ime = FALSE
    /\ halted = FALSE
    /\ int_enable = 0
    /\ mem = <<>>
    /\ loopPos = "check"
    /\ last = [op |-> "None", ime |-> FALSE, pc |-> 0, cycles |-> 0]
    /\ fetched = 0

\* A cartridge with the smallest header: MBC1::new with two banks.
InitCart ==
    /\ mbc1 = Mbc1New(NumBanks(0))
    /\ mbcOut = <<>>
    /\ written = [bank1 |-> 1, bank2 |-> 0, raw1 |-> <<>>]

\* Registers::default as the ALU sees it.
InitAlu ==
    alu = [ a |-> 0, val |-> 0, hl |-> 0, rr |-> 0,
            flags |-> [z |-> FALSE, n |-> FALSE, h |-> FALSE, c |-> FALSE],
            op |-> "None", a0 |-> 0, hl0 |-> 0, c0 |-> 0 ]

\* The devices of the bus after MemoryBus::new / Cartridge::new.
InitDevices ==
    /\ busOut = <<>>
    /\ mbc1ram = Mbc1RamNew(NumBanks(0), 0)
    /\ mbc3 = Mbc3New(NumBanks(0) * 16384)
    /\ rtcCart = Mbc3RamRtcNew(NumBanks(0) * 16384, 0)
    /\ sav = <<>>
    /\ mbc5 = Mbc5New(NumBanks(0))
    /\ bus = BusNew
    /\ busIn = <<>>
    /\ apu = ApuNew
    /\ joypad = JoypadDefault
    /\ host = HostNew
    /\ sampler = SamplerNew
    /\ scan = ScanNew
    /\ opc = OpcNew
    /\ noise = NoiseNew
    /\ frame = FrameNew

InitPeers_mbc1ram ==
    /\ busOut = <<>>
    /\ mbc3 = Mbc3New(NumBanks(0) * 16384)
    /\ rtcCart = Mbc3RamRtcNew(NumBanks(0) * 16384, 0)
    /\ sav = <<>>
    /\ mbc5 = Mbc5New(NumBanks(0))
    /\ bus = BusNew
    /\ busIn = <<>>
    /\ apu = ApuNew
    /\ joypad = JoypadDefault
    /\ host = HostNew
    /\ sampler = SamplerNew
    /\ scan = ScanNew
    /\ opc = OpcNew
    /\ noise = NoiseNew
    /\ frame = FrameNew

InitPeers_mbc3 ==
    /\ busOut = <<>>
    /\ mbc1ram = Mbc1RamNew(NumBanks(0), 0)
    /\ rtcCart = Mbc3RamRtcNew(NumBanks(0) * 16384, 0)
    /\ sav = <<>>
    /\ mbc5 = Mbc5New(NumBanks(0))
    /\ bus = BusNew
    /\ busIn = <<>>
    /\ apu = ApuNew
    /\ joypad = JoypadDefault
    /\ host = HostNew
    /\ sampler = SamplerNew
    /\ scan = ScanNew
    /\ opc = OpcNew
    /\ noise = NoiseNew
    /\ frame = FrameNew

InitPeers_rtcCart ==
    /\ busOut = <<>>
    /\ mbc1ram = Mbc1RamNew(NumBanks(0), 0)
    /\ mbc3 = Mbc3New(NumBanks(0) * 16384)
    /\ sav = <<>>
    /\ mbc5 = Mbc5New(NumBanks(0))
    /\ bus = BusNew
    /\ busIn = <<>>
    /\ apu = ApuNew
    /\ joypad = JoypadDefault
    /\ host = HostNew
    /\ sampler = SamplerNew
    /\ scan = ScanNew
    /\ opc = OpcNew
    /\ noise = NoiseNew
    /\ frame = FrameNew

InitPeers_sav ==
    /\ busOut = <<>>
    /\ mbc1ram = Mbc1RamNew(NumBanks(0), 0)
    /\ mbc3 = Mbc3New(NumBanks(0) * 16384)
    /\ rtcCart = Mbc3RamRtcNew(NumBanks(0) * 16384, 0)
    /\ mbc5 = Mbc5New(NumBanks(0))
    /\ bus = BusNew
    /\ busIn = <<>>
    /\ apu = ApuNew
    /\ joypad = JoypadDefault
    /\ host = HostNew
    /\ sampler = SamplerNew
    /\ scan = ScanNew
    /\ opc = OpcNew
    /\ noise = NoiseNew
    /\ frame = FrameNew

InitPeers_mbc5 ==
    /\ busOut = <<>>
    /\ mbc1ram = Mbc1RamNew(NumBanks(0), 0)
    /\ mbc3 = Mbc3New(NumBanks(0) * 16384)
    /\ rtcCart = Mbc3RamRtcNew(NumBanks(0) * 16384, 0)
    /\ sav = <<>>
    /\ bus = BusNew
    /\ busIn = <<>>
    /\ apu = ApuNew
    /\ joypad = JoypadDefault
    /\ host = HostNew
    /\ sampler = SamplerNew
    /\ scan = ScanNew
    /\ opc = OpcNew
    /\ noise = NoiseNew
    /\ frame = FrameNew

InitPeers_bus ==
    /\ busOut = <<>>
    /\ mbc1ram = Mbc1RamNew(NumBanks(0), 0)
    /\ mbc3 = Mbc3New(NumBanks(0) * 16384)
    /\ rtcCart = Mbc3RamRtcNew(NumBanks(0) * 16384, 0)
    /\ sav = <<>>
    /\ mbc5 = Mbc5New(NumBanks(0))
    /\ busIn = <<>>
    /\ apu = ApuNew
    /\ joypad = JoypadDefault
    /\ host = HostNew
    /\ sampler = SamplerNew
    /\ scan = ScanNew
    /\ opc = OpcNew
    /\ noise = NoiseNew
    /\ frame = FrameNew

InitPeers_apu ==
    /\ busOut = <<>>
    /\ mbc1ram = Mbc1RamNew(NumBanks(0), 0)
    /\ mbc3 = Mbc3New(NumBanks(0) * 16384)
    /\ rtcCart = Mbc3RamRtcNew(NumBanks(0) * 16384, 0)
    /\ sav = <<>>
    /\ mbc5 = Mbc5New(NumBanks(0))
    /\ bus = BusNew
    /\ busIn = <<>>
    /\ joypad = JoypadDefault
    /\ host = HostNew
    /\ sampler = SamplerNew
    /\ scan = ScanNew
    /\ opc = OpcNew
    /\ noise = NoiseNew
    /\ frame = FrameNew

InitPeers_joypad ==
    /\ busOut = <<>>
    /\ mbc1ram = Mbc1RamNew(NumBanks(0), 0)
    /\ mbc3 = Mbc3New(NumBanks(0) * 16384)
    /\ rtcCart = Mbc3RamRtcNew(NumBanks(0) * 16384, 0)
    /\ sav = <<>>
    /\ mbc5 = Mbc5New(NumBanks(0))
    /\ bus = BusNew
    /\ busIn = <<>>
    /\ apu = ApuNew
    /\ host = HostNew
    /\ sampler = SamplerNew
    /\ scan = ScanNew
    /\ opc = OpcNew
    /\ noise = NoiseNew
    /\ frame = FrameNew

InitPeers_host ==
    /\ busOut = <<>>
    /\ mbc1ram = Mbc1RamNew(NumBanks(0), 0)
    /\ mbc3 = Mbc3New(NumBanks(0) * 16384)
    /\ rtcCart = Mbc3RamRtcNew(NumBanks(0) * 16384, 0)
    /\ sav = <<>>
    /\ mbc5 = Mbc5New(NumBanks(0))
    /\ bus = BusNew
    /\ busIn = <<>>
    /\ apu = ApuNew
    /\ joypad = JoypadDefault
    /\ sampler = SamplerNew
    /\ scan = ScanNew
    /\ opc = OpcNew
    /\ noise = NoiseNew
    /\ frame = FrameNew

InitPeers_sampler ==
    /\ busOut = <<>>
    /\ mbc1ram = Mbc1RamNew(NumBanks(0), 0)
    /\ mbc3 = Mbc3New(NumBanks(0) * 16384)
    /\ rtcCart = Mbc3RamRtcNew(NumBanks(0) * 16384, 0)
    /\ sav = <<>>
    /\ mbc5 = Mbc5New(NumBanks(0))
    /\ bus = BusNew
    /\ busIn = <<>>
    /\ apu = ApuNew
    /\ joypad = JoypadDefault
    /\ host = HostNew
    /\ scan = ScanNew
    /\ opc = OpcNew
    /\ noise = NoiseNew
    /\ frame = FrameNew

InitPeers_scan ==
    /\ busOut = <<>>
    /\ mbc1ram = Mbc1RamNew(NumBanks(0), 0)
    /\ mbc3 = Mbc3New(NumBanks(0) * 16384)
    /\ rtcCart = Mbc3RamRtcNew(NumBanks(0) * 16384, 0)
    /\ sav = <<>>
    /\ mbc5 = Mbc5New(NumBanks(0))
    /\ bus = BusNew
    /\ busIn = <<>>
    /\ apu = ApuNew
    /\ joypad = JoypadDefault
    /\ host = HostNew
    /\ sampler = SamplerNew
    /\ opc = OpcNew
    /\ noise = NoiseNew
    /\ frame = FrameNew

InitPeers_opc ==
    /\ busOut = <<>>
    /\ mbc1ram = Mbc1RamNew(NumBanks(0), 0)
    /\ mbc3 = Mbc3New(NumBanks(0) * 16384)
    /\ rtcCart = Mbc3RamRtcNew(NumBanks(0) * 16384, 0)
    /\ sav = <<>>
    /\ mbc5 = Mbc5New(NumBanks(0))
    /\ bus = BusNew
    /\ busIn = <<>>
    /\ apu = ApuNew
    /\ joypad = JoypadDefault
    /\ host = HostNew
    /\ sampler = SamplerNew
    /\ scan = ScanNew
    /\ noise = NoiseNew
    /\ frame = FrameNew

InitPeers_noise ==
    /\ busOut = <<>>
    /\ mbc1ram = Mbc1RamNew(NumBanks(0), 0)
    /\ mbc3 = Mbc3New(NumBanks(0) * 16384)
    /\ rtcCart = Mbc3RamRtcNew(NumBanks(0) * 16384, 0)
    /\ sav = <<>>
    /\ mbc5 = Mbc5New(NumBanks(0))
    /\ bus = BusNew
    /\ busIn = <<>>
    /\ apu = ApuNew
    /\ joypad = JoypadDefault
    /\ host = HostNew
    /\ sampler = SamplerNew
    /\ scan = ScanNew
    /\ opc = OpcNew
    /\ frame = FrameNew

InitPeers_frame ==
    /\ busOut = <<>>
    /\ mbc1ram = Mbc1RamNew(NumBanks(0), 0)
    /\ mbc3 = Mbc3New(NumBanks(0) * 16384)
    /\ rtcCart = Mbc3RamRtcNew(NumBanks(0) * 16384, 0)
    /\ sav = <<>>
    /\ mbc5 = Mbc5New(NumBanks(0))
    /\ bus = BusNew
    /\ busIn = <<>>
    /\ apu = ApuNew
    /\ joypad = JoypadDefault
    /\ host = HostNew
    /\ sampler = SamplerNew
    /\ scan = ScanNew
    /\ opc = OpcNew
    /\ noise = NoiseNew

Init == InitMachine /\ InitCart /\ InitAlu /\ InitDevices

(***************************************************************************)
(* PPU actions.  The CPU executes an instruction (its bus access first),   *)
(* then ticks the instruction's m-cycles (Cpu::run); a register write is   *)
(* therefore followed by a PPU step before the CPU accesses the bus again. *)
(***************************************************************************)

\* One m-cycle: Ppu::step.
PpuStep ==
    /\ ~ppu.draw
    /\ ppu' = step(ppu).ppu
    /\ ppuOut' = [vblank |-> step(ppu).vblank, stat |-> step(ppu).stat]
    /\ UNCHANGED <<timerVars, cpuVars, alu, cartVars, devVars>>

\* An instruction writing a PPU register, and its first m-cycle.
PpuWriteInstr ==
    /\ ~ppu.draw
    /\ \E w \in PpuWrites :
        LET r == step(PpuWrite(ppu, w[1], w[2]))
        IN  /\ ppu' = r.ppu
            /\ ppuOut' = [vblank |-> r.vblank, stat |-> r.stat]
    /\ UNCHANGED <<timerVars, cpuVars, alu, cartVars, devVars>>

\* The frame loop polls Ppu::draw_check and ends the frame when it is set.
DrawCheck ==
    /\ ppu.draw
    /\ ppu' = draw_check(ppu)
    /\ UNCHANGED <<ppuOut, timerVars, cpuVars, alu, cartVars, devVars>>

NextPpu ==
    \/ PpuStep
    \/ PpuWriteInstr
    \/ DrawCheck

SpecPpu == Init /\ [][NextPpu]_vars

(***************************************************************************)
(* C1: in every state after a PPU step, and after any CPU write to FF40,   *)
(* FF41, FF44 or FF45 made in such a state, the value read from FF41 has   *)
(* bits 0-1 equal to the mode and bit 2 equal to (LY = LYC).               *)
(***************************************************************************)
StatLowBitsOk(p) ==
    ReadSTAT(p) % 8 = (IF p.LY = p.LYC THEN 4 ELSE 0) + p.mode

C1_StatLowBits ==
    ppu.ticks > 0 =>
        /\ StatLowBitsOk(ppu)
        /\ \A w \in PpuWrites : StatLowBitsOk(PpuWrite(ppu, w[1], w[2]))

(***************************************************************************)
(* Timer actions: the m-cycle tick of Cpu::mtick and the CPU's writes to   *)
(* FF04..FF07 and FF0F through MemoryBus::write.                           *)
(***************************************************************************)

\* Cpu::mtick: Timers::increment, request_interrupt(2) if it returns true,
\* and the cycle counter.
MTick ==
    /\ cycles < MaxCycles
    /\ LET r == increment(timers)
       IN  /\ timers' = r.timers
           /\ timerOut' = [interrupt |-> r.interrupt, clocked |-> r.clocked,
                           wrapped |-> r.wrapped]
           /\ int_flag' = IF r.interrupt THEN request_interrupt(int_flag, 2)
                          ELSE int_flag
           /\ tlog' = [phase |-> IF r.wrapped THEN "wrapped"
                                 ELSE IF tlog.phase = "cancelled" THEN "kept"
                                 ELSE "idle",
                       divw |-> "none", divBefore |-> 0]
    /\ cycles' = cycles + 1
    /\ UNCHANGED <<ppuVars, cpuVars, alu, cartVars, devVars>>

\* MemoryBus::write(0xff04, _).
WriteDIV ==
    /\ timers' = TimerWrite(timers, 65284, 0)
    /\ tlog' = [tlog EXCEPT
                  !.divw = IF @ = "hit" \/ TimerSignal(timers.div, timers.tac)
                           THEN "hit" ELSE "miss",
                  !.divBefore = IF tlog.divw = "none" THEN timers.div ELSE @]
    /\ UNCHANGED <<timerOut, int_flag, cycles, ppuVars, cpuVars, alu, cartVars, devVars>>

\* MemoryBus::write(0xff05, val).
WriteTIMA ==
    /\ \E v \in TimaVals : timers' = TimerWrite(timers, 65285, v)
    /\ tlog' = [tlog EXCEPT !.phase = IF @ = "wrapped" THEN "cancelled" ELSE @]
    /\ UNCHANGED <<timerOut, int_flag, cycles, ppuVars, cpuVars, alu, cartVars, devVars>>

\* MemoryBus::write(0xff06, val).
WriteTMA ==
    /\ \E v \in TmaVals : timers' = TimerWrite(timers, 65286, v)
    /\ UNCHANGED <<timerOut, int_flag, cycles, tlog, ppuVars, cpuVars, alu, cartVars, devVars>>

\* MemoryBus::write(0xff07, val).
WriteTAC ==
    /\ \E v \in TacVals : timers' = TimerWrite(timers, 65287, v)
    /\ UNCHANGED <<timerOut, int_flag, cycles, tlog, ppuVars, cpuVars, alu, cartVars, devVars>>

\* MemoryBus::write(0xff0f, 0): the program acknowledges every interrupt.
WriteIF ==
    /\ int_flag' = 224
    /\ UNCHANGED <<timers, timerOut, cycles, tlog, ppuVars, cpuVars, alu, cartVars, devVars>>

NextTimers ==
    \/ MTick
    \/ WriteDIV
    \/ WriteTIMA
    \/ WriteTMA
    \/ WriteTAC
    \/ WriteIF

SpecTimers == Init /\ [][NextTimers]_vars

(***************************************************************************)
(* CPU actions: the loop of Cpu::run, split at the point between           *)
(* check_for_interrupts and the rest of the iteration.                     *)
(***************************************************************************)

\* The machine record of the current state.
Machine ==
    [ registers |-> registers, ime |-> ime, halted |-> halted, cycles |-> cycles,
      timers |-> timers, int_flag |-> int_flag, int_enable |-> int_enable,
      mem |-> mem ]

\* The next state holds the machine m.
SetMachine(m) ==
    /\ registers' = m.registers
    /\ ime' = m.ime
    /\ halted' = m.halted
    /\ cycles' = m.cycles
    /\ timers' = m.timers
    /\ int_flag' = m.int_flag
    /\ int_enable' = m.int_enable
    /\ mem' = m.mem

\* Cpu::run: self.check_for_interrupts().
CheckForInterrupts ==
    /\ loopPos = "check"
    /\ SetMachine(check_for_interrupts(Machine))
    /\ loopPos' = "step"
    /\ UNCHANGED <<last, fetched, timerOut, tlog, ppuVars, alu, cartVars, devVars>>

\* Cpu::run: if self.halted { self.mtick() }.
HaltedTick ==
    /\ loopPos = "step"
    /\ halted
    /\ cycles < MaxCpuCycles
    /\ SetMachine(mtick(Machine))
    /\ loopPos' = "check"
    /\ UNCHANGED <<last, fetched, timerOut, tlog, ppuVars, alu, cartVars, devVars>>

\* The code at pc.  The model's programs load SP first and only then.
CodeAtPc ==
    {code \in ProgramCode : (code[1] = 49) <=> (registers.sp = 0)}

\* Cpu::run: decode_instr succeeds; pc += len, execute_instr, mtick x cycles.
ExecInstr ==
    /\ loopPos = "step"
    /\ ~halted
    /\ \E code \in CodeAtPc :
         LET instr == decode_instr(code)
         IN  /\ instr.op # "Crash"
             /\ cycles + mcycles(instr) <= MaxCpuCycles
             /\ SetMachine(run_instr(Machine, instr))
             /\ last' = [op |-> instr.op, ime |-> ime, pc |-> registers.pc,
                         cycles |-> cycles]
             /\ fetched' = code[1]
    /\ loopPos' = "check"
    /\ UNCHANGED <<timerOut, tlog, ppuVars, alu, cartVars, devVars>>

\* Cpu::run: decode_instr bails and "?" returns the error from run.
FetchCrash ==
    /\ loopPos = "step"
    /\ ~halted
    /\ \E code \in CodeAtPc :
         /\ decode_instr(code).op = "Crash"
         /\ fetched' = code[1]
    /\ loopPos' = "error"
    /\ UNCHANGED <<registers, ime, halted, cycles, timers, int_flag, int_enable,
                   mem, last, timerOut, tlog, ppuVars, alu, cartVars, devVars>>

NextCpu ==
    \/ CheckForInterrupts
    \/ HaltedTick
    \/ ExecInstr
    \/ FetchCrash

SpecCpu == Init /\ [][NextCpu]_vars

(***************************************************************************)
(* C2: a tick in which the TIMA increment wraps from 0xFF leaves TIMA      *)
(* reading 0 and requests no interrupt; the tick after it (TIMA not        *)
(* written in between) loads TIMA from TMA and requests interrupt 2; and   *)
(* no other tick requests the timer interrupt.                             *)
(***************************************************************************)
C2_OverflowDelay ==
    [][ cycles' = cycles + 1 =>
          /\ timerOut'.wrapped =>
                /\ ReadTIMA(timers') = 0
                /\ ~timerOut'.interrupt
                /\ int_flag' = int_flag
          /\ tlog.phase = "wrapped" =>
                /\ ReadTIMA(timers') = timers.tma
                /\ timerOut'.interrupt
                /\ Bit(int_flag', 2)
          /\ timerOut'.interrupt => tlog.phase = "wrapped"
      ]_vars

\* A tick has just reloaded TIMA from TMA and raised IF bit 2.
C2_Witness ==
    /\ timerOut.interrupt
    /\ ReadTIMA(timers) = timers.tma
    /\ timers.tma = 16
    /\ Bit(int_flag, 2)

(***************************************************************************)
(* C3: when TIMA is written between the tick in which it wrapped and the   *)
(* next tick, that next tick leaves TIMA at the written value (plus one if *)
(* the tick clocks TIMA), does not load TMA and requests no interrupt.     *)
(***************************************************************************)
C3_TimaWriteCancels ==
    [][ (cycles' = cycles + 1 /\ tlog.phase = "cancelled") =>
          /\ timers.tima \in TimaVals
          /\ ReadTIMA(timers') = IF timerOut'.clocked
                                 THEN (timers.tima + 1) % 256 ELSE timers.tima
          /\ ~timerOut'.interrupt
          /\ int_flag' = int_flag
      ]_vars

\* The tick after a cancelling write has run: TIMA holds the written value,
\* which differs from TMA, and IF bit 2 is clear.
C3_Witness ==
    /\ tlog.phase = "kept"
    /\ ReadTIMA(timers) = 128
    /\ timers.tma = 16
    /\ ~Bit(int_flag, 2)

(***************************************************************************)
(* C4: a write to FF04 zeroes DIV; the tick that follows clocks TIMA if    *)
(* the timer signal (selected DIV bit and TAC bit 2) was high at the       *)
(* write, and if the signal was low at the write the tick clocks TIMA only *)
(* when it would have done so without the write.                           *)
(***************************************************************************)
C4_DivWriteClocksTima ==
    [][ /\ tlog'.divw # "none" => timers'.div = 0
        /\ cycles' = cycles + 1 =>
              /\ tlog.divw = "hit" => timerOut'.clocked
              /\ (tlog.divw = "miss" /\ timerOut'.clocked) =>
                    /\ timers.result
                    /\ ~TimerSignal((tlog.divBefore + 4) % 65536, timers.tac)
      ]_vars

C6_EiDelay ==
    [][ (loopPos = "check" /\ last.op = "Ei" /\ ~last.ime) =>
          /\ ~ime
          /\ registers' = registers
          /\ int_flag' = int_flag
      ]_vars

C8_IllegalOpcodeFaults ==
    [][ /\ loopPos # "error"
        /\ (loopPos = "step" /\ ~halted
              /\ fetched' \in {211, 219, 221, 227, 228, 235, 236, 237, 244, 252, 253}) =>
              /\ loopPos' = "error"
              /\ UNCHANGED <<registers, ime, halted, cycles, mem, timers,
                             int_flag, int_enable>>
      ]_vars

\* The loop has stopped on FD, fetched in an interrupt handler.
C8_Witness ==
    /\ loopPos = "error"
    /\ fetched = 253
    /\ registers.sp = 65532
    /\ registers.pc \in 64..96
    /\ cycles > 3

(***************************************************************************)
(* ALU actions: one arithmetic instruction applied to the operands the     *)
(* initial state drew.                                                     *)
(***************************************************************************)

\* ADD, ADC, SUB, SBC and CP with an 8-bit operand.
AluOp8 ==
    /\ alu.op = "None"
    /\ alu.hl = 0 /\ alu.rr = 0
    /\ \E op \in {"Add", "Adc", "Sub", "Sbc", "Cp"} : alu' = AluExec(alu, op)
    /\ UNCHANGED <<ppuVars, timerVars, cpuVars, cartVars, devVars>>

\* INC A and DEC A; the operand register is not read and is taken as 0.
AluIncDec ==
    /\ alu.op = "None"
    /\ alu.val = 0 /\ alu.hl = 0 /\ alu.rr = 0
    /\ \E op \in {"IncR8", "DecR8"} : alu' = AluExec(alu, op)
    /\ UNCHANGED <<ppuVars, timerVars, cpuVars, cartVars, devVars>>

\* ADD HL,rr; A and the 8-bit operand are not read and are taken as 0.
AluAddHL ==
    /\ alu.op = "None"
    /\ alu.a = 0 /\ alu.val = 0 /\ ~alu.flags.c
    /\ alu' = AluExec(alu, "AddHL")
    /\ UNCHANGED <<ppuVars, timerVars, cpuVars, cartVars, devVars>>

NextAlu ==
    \/ AluOp8
    \/ AluIncDec
    \/ AluAddHL

\* The machine after construction with the ALU operands drawn.
InitAluOperands == InitMachine /\ InitCart /\ InitDevices /\ alu \in AluInputs

SpecAlu == InitAluOperands /\ [][NextAlu]_vars

(***************************************************************************)
(* C9: H after ADD, ADC and INC is (a & 0xF) + (b & 0xF) + c > 0xF, H      *)
(* after SUB, SBC, CP and DEC is (a & 0xF) < (b & 0xF) + c, with c the     *)
(* carry-in for ADC and SBC and 0 otherwise and b = 1 for INC and DEC; C   *)
(* after ADC is a + b + c > 0xFF and after SBC is a < b + c; H after       *)
(* ADD HL,rr is (HL & 0xFFF) + (rr & 0xFFF) > 0xFFF.                       *)
(***************************************************************************)
C9_HalfCarry ==
    LET a == alu.a0
        b == alu.val
        c == alu.c0
    IN  /\ alu.op = "Add" => (alu.flags.h <=> (a % 16) + (b % 16) > 15)
        /\ alu.op = "Adc" =>
              /\ alu.flags.h <=> (a % 16) + (b % 16) + c > 15
              /\ alu.flags.c <=> a + b + c > 255
              /\ alu.a = (a + b + c) % 256
        /\ alu.op = "IncR8" => (alu.flags.h <=> (a % 16) + 1 > 15)
        /\ alu.op \in {"Sub", "Cp"} => (alu.flags.h <=> (a % 16) < (b % 16))
        /\ alu.op = "Sbc" =>
              /\ alu.flags.h <=> (a % 16) < (b % 16) + c
              /\ alu.flags.c <=> a < b + c
              /\ alu.a = (a + 512 - b - c) % 256
        /\ alu.op = "DecR8" => (alu.flags.h <=> (a % 16) < 1)
        /\ alu.op = "AddHL" =>
              (alu.flags.h <=> (alu.hl0 % 4096) + (alu.rr % 4096) > 4095)

\* ADC has run on 0x0F + 0x00 with carry-in: the half carry comes from the
\* first of the two steps alone.
C9_Witness ==
    /\ alu.op = "Adc"
    /\ alu.a0 = 15 /\ alu.val = 0 /\ alu.c0 = 1
    /\ alu.flags.h /\ ~alu.flags.c
    /\ alu.a = 16

(***************************************************************************)
(* Cartridge actions: an MBC1 cartridge of any accepted size, its          *)
(* register writes and its ROM reads.                                      *)
(***************************************************************************)

\* Cartridge::write -> <MBC1 as Mapper>::write.
CartWrite ==
    /\ ~mbc1.panicked
    /\ \E addr \in {0, 8192, 16383, 16384, 24576, 40960},
          val \in 0..33 \cup {255} :
         /\ mbc1' = Mbc1Write(mbc1, addr, val)
         /\ written' = [bank1 |-> IF addr \in 8192..16383
                                  THEN (IF val % 32 = 0 THEN 1 ELSE val % 32)
                                  ELSE written.bank1,
                        bank2 |-> IF addr \in 16384..24575 THEN val % 4
                                  ELSE written.bank2,
                        raw1  |-> IF addr \in 8192..16383 THEN <<val>>
                                  ELSE written.raw1]
    /\ mbcOut' = <<>>
    /\ UNCHANGED <<ppuVars, timerVars, cpuVars, alu, devVars>>

\* Cartridge::read -> <MBC1 as Mapper>::read.
CartRead ==
    /\ ~mbc1.panicked
    /\ \E addr \in {0, 16383, 16384, 32767} : mbcOut' = <<addr, Mbc1Read(mbc1, addr)>>
    /\ UNCHANGED <<mbc1, written, ppuVars, timerVars, cpuVars, alu, devVars>>

NextMbc1 ==
    \/ CartWrite
    \/ CartRead

\* Cartridge::new for an MBC1 image with header byte 0x148 in 0..8.
InitCartridges ==
    /\ InitMachine /\ InitAlu /\ InitDevices
    /\ \E e \in 0..8 : mbc1 = Mbc1New(NumBanks(e))
    /\ mbcOut = <<>>
    /\ written = [bank1 |-> 1, bank2 |-> 0, raw1 |-> <<>>]

SpecMbc1 == InitCartridges /\ [][NextMbc1]_vars

(***************************************************************************)
(* C10: for every accepted bank count and after any writes, no write has   *)
(* made the mapper panic, and a read at 0x4000 + off returns the ROM byte  *)
(* at (((bank2 << 5) | bank1) mod num_banks) * 0x4000 + off for the bank   *)
(* numbers last written.                                                   *)
(***************************************************************************)
C10_Mbc1HighBank ==
    /\ ~mbc1.panicked
    /\ (mbcOut # <<>> /\ mbcOut[1] >= 16384) =>
          mbcOut[2] = Rom(((written.bank2 * 32 + written.bank1) % mbc1.num_banks)
                            * 16384 + (mbcOut[1] - 16384))

(***************************************************************************)
(* C11 as stated: bank1 is never zero, it is in 1..31 after any writes to  *)
(* 2000-3FFF for any ROM bank count.                                       *)
(***************************************************************************)
C11_Bank1NeverZero == mbc1.bank1 \in 1..31

(***************************************************************************)
(* C11: bank1 is in 0..31 after any writes to 2000-3FFF; a written value   *)
(* whose low five bits are zero is stored as 1; bank1 is zero only after a *)
(* write of a value whose low five bits are a non-zero multiple of the     *)
(* bank count (the stored value is the written one modulo the bank count). *)
(***************************************************************************)
C11_Bank1 ==
    /\ mbc1.bank1 \in 0..31
    /\ (written.raw1 # <<>> /\ written.raw1[1] % 32 = 0) => mbc1.bank1 = 1
    /\ mbc1.bank1 = 0 <=>
          /\ written.raw1 # <<>>
          /\ written.raw1[1] % 32 # 0
          /\ (written.raw1[1] % 32) % mbc1.num_banks = 0

\* 0x20 has been written to 2000-3FFF of a 64-bank cartridge whose bank1
\* held 3: bank1 is 1.
C11_Witness ==
    /\ mbc1.num_banks = 64
    /\ written.raw1 = <<32>>
    /\ mbc1.bank1 = 1
    /\ mbc1.bank2 = 1
(***************************************************************************)
(* MBC1 with RAM: a cartridge of any accepted RAM size, its register       *)
(* writes and its RAM accesses.                                            *)
(***************************************************************************)

\* The writes the CPU performs on the cartridge: <<address, value>>.
Mbc1RamWrites ==
    ({0} \X {0, 10}) \cup ({8192} \X {0, 3}) \cup ({16384} \X {0, 1, 2, 3})
        \cup ({24576} \X {0, 1}) \cup ({40960, 43008} \X {7})

\* Cartridge::write -> <MBC1Ram as Mapper>::write.
CartRamWrite ==
    /\ ~mbc1ram.panicked
    /\ \E w \in Mbc1RamWrites : mbc1ram' = Mbc1RamWrite(mbc1ram, w[1], w[2])
    /\ busOut' = <<>>
    /\ UNCHANGED others_mbc1ram

\* Cartridge::read -> <MBC1Ram as Mapper>::read at A000-BFFF.
CartRamRead ==
    /\ ~mbc1ram.panicked
    /\ \E addr \in {40960, 43008} :
         /\ busOut' = <<addr, Mbc1RamRead(mbc1ram, addr)[1]>>
         /\ mbc1ram' = [mbc1ram EXCEPT !.panicked = Mbc1RamRead(mbc1ram, addr)[2]]
    /\ UNCHANGED others_mbc1ram

NextMbc1Ram ==
    \/ CartRamWrite
    \/ CartRamRead

\* Cartridge::new for an MBC1+RAM image (header 0x147 = 0x02 or 0x03) with
\* header byte 0x149 in 0..5.
InitMbc1Ram ==
    /\ InitMachine /\ InitCart /\ InitAlu /\ InitPeers_mbc1ram
    /\ \E t \in 0..5 : mbc1ram = Mbc1RamNew(NumBanks(2), RamSize(t))

SpecMbc1Ram == InitMbc1Ram /\ [][NextMbc1Ram]_vars

(***************************************************************************)
(* C12: in every state with banking mode 1 the RAM bank mapped at          *)
(* A000-BFFF is bank2 (the low 2 bits last written to 4000-5FFF) modulo    *)
(* the number of RAM banks, and in mode 0 it is bank 0, whatever the order *)
(* in which bank2 and the mode bit were written.                           *)
(***************************************************************************)
C12_RamBank ==
    (~mbc1ram.panicked /\ RamBanks(mbc1ram.ram_len) > 0) =>
        ram_bank(mbc1ram) = IF mbc1ram.mbc1.mode
                            THEN mbc1ram.mbc1.bank2 % RamBanks(mbc1ram.ram_len)
                            ELSE 0
(***************************************************************************)
(* MBC3 without RAM: a cartridge of any accepted ROM size, its bank        *)
(* register writes and its ROM reads.                                      *)
(***************************************************************************)

\* The addresses of the cartridge on the bus (Bus::read and Bus::write,
\* 0000-7FFF and A000-BFFF) that the model reads and writes.
Mbc3WriteAddrs == {0, 8192, 16383, 24576, 40960}
Mbc3ReadAddrs == {0, 16384, 32767, 40960}

\* Cartridge::write -> <MBC3 as Mapper>::write; written.raw1 keeps the byte
\* written to 2000-3FFF.
Mbc3CartWrite ==
    /\ ~mbc3.panicked
    /\ \E addr \in Mbc3WriteAddrs, val \in 0..255 :
         /\ mbc3' = Mbc3Write(mbc3, addr, val)
         /\ written' = IF addr \in 8192..16383
                       THEN [written EXCEPT !.raw1 = <<val>>]
                       ELSE written
    /\ busOut' = <<>>
    /\ UNCHANGED <<ppuVars, timerVars, cpuVars, alu, mbc1, mbcOut, peers_mbc3>>

\* Cartridge::read -> <MBC3 as Mapper>::read.
Mbc3CartRead ==
    /\ ~mbc3.panicked
    /\ \E addr \in Mbc3ReadAddrs :
         /\ busOut' = <<addr, Mbc3Read(mbc3, addr)[1]>>
         /\ mbc3' = [mbc3 EXCEPT !.panicked = Mbc3Read(mbc3, addr)[2]]
    /\ UNCHANGED <<coreVars, others_mbc3>>

NextMbc3 ==
    \/ Mbc3CartWrite
    \/ Mbc3CartRead

\* Cartridge::new for an MBC3 image (header 0x147 = 0x11) whose length is
\* the one its header byte 0x148 declares.
InitMbc3 ==
    /\ InitMachine /\ InitCart /\ InitAlu /\ InitPeers_mbc3
    /\ \E e \in 0..8 : mbc3 = Mbc3New(NumBanks(e) * 16384)

SpecMbc3 == InitMbc3 /\ [][NextMbc3]_vars

(***************************************************************************)
(* C13: the MBC3 ROM bank register holds 7 bits: after a write of v to     *)
(* 2000-3FFF the bank mapped at 4000-7FFF is v & 0x7F, or 1 when that is   *)
(* 0, so the selected bank is in 1..127 for every written byte v.          *)
(***************************************************************************)
C13_Mbc3Bank ==
    /\ mbc3.bank \in 1..127
    /\ written.raw1 # <<>> =>
          mbc3.bank = IF written.raw1[1] % 128 = 0 THEN 1 ELSE written.raw1[1] % 128
(***************************************************************************)
(* MBC3 with RAM and RTC: the cartridge's register writes, RAM and RTC     *)
(* accesses, the clock's increments, and the save file written when the    *)
(* emulator exits and loaded when it starts again.                         *)
(***************************************************************************)

\* The writes the CPU performs on the cartridge: <<address, value>>.
RtcCartWrites ==
    ({0} \X {0, 10}) \cup ({8192} \X {2}) \cup ({16384} \X {0, 8, 11, 12})
        \cup ({24576} \X {0, 1}) \cup ({40960} \X {1, 193})

\* The number of increments of the clock the model follows after the
\* clock's cycle and tick counters were last reset.
MaxRtcIncrements == 2

\* The clock of a cartridge as Rtc::default leaves it, as it is one
\* increment before the next second after it has run undisturbed, and as
\* it is one increment before a tick within a second.
RtcClocks ==
    {RtcDefault} \cup
    { [RtcDefault EXCEPT !.cycles = 124, !.ticks = 32767, !.internal_state = i] :
        i \in { [seconds |-> 59, minutes |-> 59, hours |-> 23, days |-> 511],
                [seconds |-> 59, minutes |-> 59, hours |-> 23, days |-> 0],
                [seconds |-> 7,  minutes |-> 0,  hours |-> 0,  days |-> 0] } } \cup
    { [RtcDefault EXCEPT !.cycles = 124, !.ticks = 5,
                         !.internal_state.seconds = 7] }

\* Cartridge::write -> <MBC3RamRtc as Mapper>::write.
RtcCartWrite ==
    /\ ~rtcCart.panicked /\ sav = <<>>
    /\ \E w \in RtcCartWrites : rtcCart' = Mbc3RamRtcWrite(rtcCart, w[1], w[2])
    /\ busOut' = <<>>
    /\ UNCHANGED others_rtcCart

\* Cartridge::read -> <MBC3RamRtc as Mapper>::read at A000.
RtcCartRead ==
    /\ ~rtcCart.panicked /\ sav = <<>>
    /\ busOut' = <<40960, Mbc3RamRtcRead(rtcCart, 40960)[1]>>
    /\ rtcCart' = [rtcCart EXCEPT !.panicked = Mbc3RamRtcRead(rtcCart, 40960)[2]]
    /\ UNCHANGED others_rtcCart

\* Cartridge::increment_rtc -> <MBC3RamRtc as Mapper>::increment_rtc.
IncrementRtc ==
    /\ ~rtcCart.panicked /\ sav = <<>>
    /\ \/ rtcCart.rtc.cycles = 124
       \/ rtcCart.rtc.ticks * 32 + rtcCart.rtc.cycles \div 4 < MaxRtcIncrements
    /\ rtcCart' = [rtcCart EXCEPT !.rtc = RtcIncrement(rtcCart.rtc)]
    /\ UNCHANGED <<busOut, others_rtcCart>>

\* Cartridge::save_external_ram when the emulator exits.
SaveExternalRam ==
    /\ ~rtcCart.panicked /\ sav = <<>>
    /\ sav' = [file |-> save_external_ram(rtcCart)]
    /\ UNCHANGED <<busOut, rtcCart, others_sav>>

\* Cartridge::new and Cartridge::load_external_ram when the emulator
\* starts again with the same ROM.
LoadExternalRam ==
    /\ sav # <<>>
    /\ rtcCart' = load_external_ram(
                      Mbc3RamRtcNew(rtcCart.mbc3.rom_len, rtcCart.ram_len), sav.file)
    /\ sav' = <<>>
    /\ busOut' = <<>>
    /\ UNCHANGED <<coreVars, peers_rtcCart_sav>>

NextRtc ==
    \/ RtcCartWrite
    \/ RtcCartRead
    \/ IncrementRtc
    \/ SaveExternalRam
    \/ LoadExternalRam

\* Cartridge::new for an MBC3+RAM+RTC image (header 0x147 = 0x10) without
\* a save file, with 0 or 32 KiB of RAM, and its clock.
InitRtc ==
    /\ InitMachine /\ InitCart /\ InitAlu /\ InitPeers_rtcCart
    /\ \E t \in {0, 3}, clock \in RtcClocks :
         rtcCart = [Mbc3RamRtcNew(NumBanks(0) * 16384, RamSize(t))
                      EXCEPT !.rtc = clock]

SpecRtc == InitRtc /\ [][NextRtc]_vars

(***************************************************************************)
(* C14: RTC register reads return a latched snapshot: the snapshot is      *)
(* replaced by the internal clock state only when a 0 and then a 1 are     *)
(* written to 6000-7FFF (or an RTC register is written, or a save file is  *)
(* loaded), and a call of increment_rtc changes the value read from none   *)
(* of the five RTC registers.                                              *)
(***************************************************************************)
C14_RtcLatch ==
    [][ /\ (rtcCart'.rtc.latched_state # rtcCart.rtc.latched_state) =>
              \/ /\ rtcCart.rtc.prepare_latch /\ ~rtcCart'.rtc.prepare_latch
                 /\ rtcCart'.rtc.latched_state = rtcCart.rtc.internal_state
              \/ /\ rtcCart.ram_enabled /\ rtcCart.register % 16 \in 8..12
                 /\ rtcCart'.rtc.internal_state = rtcCart'.rtc.latched_state
              \/ sav # <<>>
        /\ (sav = <<>> /\ rtcCart' = [rtcCart EXCEPT !.rtc = RtcIncrement(rtcCart.rtc)]) =>
              \A r \in 8..12 : RtcRead(rtcCart'.rtc, r) = RtcRead(rtcCart.rtc, r)
      ]_vars

(***************************************************************************)
(* C16: loading the file written by save_external_ram restores the         *)
(* persistent state: every external RAM byte and the seconds, minutes,     *)
(* hours and day counter of the internal and of the latched RTC state are  *)
(* the same after save followed by load.                                   *)
(***************************************************************************)
C16_SaveLoad ==
    [][ (sav # <<>> /\ sav' = <<>>) =>
          /\ rtcCart'.ram = rtcCart.ram
          /\ rtcCart'.rtc.internal_state = rtcCart.rtc.internal_state
          /\ rtcCart'.rtc.latched_state = rtcCart.rtc.latched_state
      ]_vars
(***************************************************************************)
(* MBC5: a cartridge of any accepted ROM size, its bank register writes    *)
(* and its ROM reads.  written.bank1 is the byte last written to           *)
(* 2000-2FFF, written.bank2 bit 0 of the byte last written to 3000-3FFF.   *)
(***************************************************************************)

\* Cartridge::write -> <MBC5 as Mapper>::write.
Mbc5CartWrite ==
    /\ \E addr \in {0, 8192, 12287, 12288, 16383, 16384},
          val \in {0, 1, 2, 3, 5, 31, 32, 63, 64, 69, 127, 128, 129, 200, 254, 255} :
         /\ mbc5' = Mbc5Write(mbc5, addr, val)
         /\ written' = [written EXCEPT
                          !.bank1 = IF addr \in 8192..12287 THEN val ELSE @,
                          !.bank2 = IF addr \in 12288..16383 THEN val % 2 ELSE @]
    /\ busOut' = <<>>
    /\ UNCHANGED <<ppuVars, timerVars, cpuVars, alu, mbc1, mbcOut, peers_mbc5>>

\* Cartridge::read -> <MBC5 as Mapper>::read.
Mbc5CartRead ==
    /\ \E addr \in {0, 16384, 32767} : busOut' = <<addr, Mbc5Read(mbc5, addr)>>
    /\ UNCHANGED <<mbc5, others_mbc5>>

NextMbc5 ==
    \/ Mbc5CartWrite
    \/ Mbc5CartRead

\* Cartridge::new for an MBC5 image (header 0x147 = 0x19) with header byte
\* 0x148 in 0..8.
InitMbc5 ==
    /\ InitMachine /\ InitCart /\ InitAlu /\ InitPeers_mbc5
    /\ \E e \in 0..8 : mbc5 = Mbc5New(NumBanks(e))

SpecMbc5 == InitMbc5 /\ [][NextMbc5]_vars

(***************************************************************************)
(* C15: after any writes to 2000-2FFF (low 8 bits) and 3000-3FFF (bit 8 =  *)
(* bit 0 of the value), reads at 4000-7FFF come from bank R mod num_banks, *)
(* R being the 9-bit value formed from the last value written to each      *)
(* range (initially 1); a written 0 selects bank 0.                        *)
(***************************************************************************)
C15_Mbc5Bank ==
    LET R == written.bank2 * 256 + written.bank1
    IN  /\ mbc5.bank = R % mbc5.num_banks
        /\ (busOut # <<>> /\ busOut[1] >= 16384) =>
              busOut[2] = Rom((R % mbc5.num_banks) * 16384 + (busOut[1] - 16384))

\* A read of 4000 after 0x45 and bit 8 were written on a 64-bank
\* cartridge: bank 0x145 mod 64 = 5.
C15_Witness ==
    /\ mbc5.num_banks = 64
    /\ written.bank1 = 69 /\ written.bank2 = 1
    /\ busOut = <<16384, Rom(5 * 16384)>>
(***************************************************************************)
(* OAM DMA: the CPU's writes to FF46, its accesses to OAM and high RAM,    *)
(* and the m-cycles, each of which ticks the DMA engine once.              *)
(***************************************************************************)

\* The number of writes to FF46 in a run of the model.
MaxDmaWrites == 2

\* The high bytes written to FF46: a work RAM page and an echo page.
DmaBases == {193, 224}

\* The slots of a running transfer at which the CPU writes FF46 again.
RestartSlots == {0, 1, 100, 159}

\* An m-cycle: MemoryBus::tick_dma.
TickDma ==
    /\ bus.dma.enabled
    /\ bus' = tick_dma(bus)
    /\ busOut' = <<>>
    /\ UNCHANGED others_bus

\* The CPU writes FF46.
WriteDma ==
    /\ bus.writes < MaxDmaWrites
    /\ IF bus.dma.slot = <<>> THEN TRUE ELSE bus.dma.slot[1] \in RestartSlots
    /\ \E b \in DmaBases : bus' = OamHramWrite(bus, 65350, b, HBlank)
    /\ busOut' = <<>>
    /\ UNCHANGED others_bus

\* The CPU writes OAM or high RAM, in any PPU mode.
WriteOamHram ==
    /\ \E addr \in {65024, 65408}, mode \in {HBlank, OamScan} :
         bus' = OamHramWrite(bus, addr, 7, mode)
    /\ busOut' = <<>>
    /\ UNCHANGED others_bus

\* The CPU reads OAM or high RAM, in any PPU mode.
ReadOamHram ==
    /\ \E addr \in {65024, 65408}, mode \in {HBlank, OamScan} :
         busOut' = <<addr, OamHramRead(bus, addr, mode)>>
    /\ UNCHANGED <<bus, others_bus>>

NextDma ==
    \/ TickDma
    \/ WriteDma
    \/ WriteOamHram
    \/ ReadOamHram

InitDma == InitMachine /\ InitCart /\ InitAlu /\ InitPeers_bus /\ bus = BusNew

SpecDma == InitDma /\ [][NextDma]_vars

(***************************************************************************)
(* C17: after every write of a value b to FF46, including one made while   *)
(* an earlier transfer is still running, the DMA engine copies the 160     *)
(* bytes source(b*0x100 + i) to OAM[i], one byte per m-cycle in ascending  *)
(* i, and then becomes idle: when the engine becomes idle, OAM holds the   *)
(* 160 source bytes of the base last written.                              *)
(***************************************************************************)
C17_DmaCopies ==
    [][ (bus.dma.enabled /\ ~bus'.dma.enabled) =>
          \A i \in 0..LastSlot :
             bus'.oam_ram[i] = Wram((bus.dma.base * 256 + i) % 8192)
      ]_vars
MaxApuWrites == 1
MaxFrameSteps == 4

\* The registers FF10-FF25 that MemoryBus routes to the APU.
ApuRegisters == (65296..65317) \ {65301, 65311}

\* The writes the CPU makes: one value for each register FF10-FF25, both
\* values of FF26 bit 7, and the last byte of wave RAM.
ApuWrites ==
    { <<65296, 25>>, <<65297, 128>>, <<65298, 243>>, <<65299, 255>>,
      <<65300, 199>>, <<65302, 128>>, <<65303, 240>>, <<65304, 1>>,
      <<65305, 192>>, <<65306, 128>>, <<65307, 255>>, <<65308, 64>>,
      <<65309, 2>>, <<65310, 192>>, <<65312, 63>>, <<65313, 241>>,
      <<65314, 59>>, <<65315, 192>>, <<65316, 255>>, <<65317, 255>>,
      <<65318, 128>>, <<65318, 0>>, <<65343, 52>> }

\* MemoryBus::write for FF10-FF3F.
ApuWriteReg ==
    \E w \in ApuWrites :
       LET effective == apu.master_enable /\ w[1] \in ApuRegisters
       IN  /\ effective => apu.writes < MaxApuWrites
           /\ apu' = [ApuWrite(apu, w[1], w[2]) EXCEPT
                        !.writes = IF effective THEN @ + 1 ELSE @]
           /\ busIn' = w
           /\ busOut' = <<>>
           /\ UNCHANGED rest_apu

\* MemoryBus::read for FF11 and FF26.
ApuReadReg ==
    /\ \E addr \in {65297, 65318} :
          busOut' = <<addr, ApuRead(apu, addr)>>
    /\ UNCHANGED <<apu, busIn, rest_apu>>

\* A falling edge of DIV bit 12 in Timers::increment.
ApuFrameStep ==
    /\ apu.steps < MaxFrameSteps
    /\ apu' = [tick_frame_sequencer(apu) EXCEPT !.steps = @ + 1]
    /\ busIn' = <<>>
    /\ busOut' = <<>>
    /\ UNCHANGED rest_apu

NextApu ==
    \/ ApuWriteReg
    \/ ApuReadReg
    \/ ApuFrameStep

InitApu == InitMachine /\ InitCart /\ InitAlu /\ InitPeers_apu /\ apu = ApuNew

SpecApu == InitApu /\ [][NextApu]_vars

(***************************************************************************)
(* C19: from the moment bit 7 of FF26 is cleared until it is set again,    *)
(* every write to FF10-FF25 is discarded and every read of FF10-FF25       *)
(* returns the value the register reads when it was never written (FF11    *)
(* reads 0x3F after 0x80 was written to it), while FF26 and wave RAM       *)
(* FF30-FF3F remain writable.                                              *)
(***************************************************************************)
C19_PoweredOff ==
    [][ /\ ~apu'.master_enable =>
             \A addr \in ApuRegisters : ApuRead(apu', addr) = ApuRead(ApuNew, addr)
        /\ (~apu.master_enable /\ busOut' # <<>> /\ busOut'[1] \in ApuRegisters) =>
             busOut'[2] = ApuRead(ApuNew, busOut'[1])
        /\ (~apu.master_enable /\ busIn' # <<>> /\ busIn'[1] \in ApuRegisters) =>
             apu' = apu
        /\ (busIn' # <<>> /\ busIn'[1] = 65318) =>
             apu'.master_enable = Bit(busIn'[2], 7)
        /\ (~apu.master_enable /\ busIn' # <<>> /\ busIn'[1] \in 65328..65343) =>
             apu'.aram[busIn'[1] - 65328] = busIn'[2]
      ]_vars

\* The APU was powered on, 0x80 was written to FF11, the APU was powered
\* off, 0x80 was written to FF11 again, and FF11 was read: 0x3F.
C19_Witness ==
    /\ ~apu.master_enable
    /\ apu.writes = 1
    /\ busIn = <<65297, 128>>
    /\ busOut = <<65297, 63>>

(***************************************************************************)
(* The joypad: key events of the host, the CPU's writes to FF00, and the   *)
(* poll that takes the interrupt request.                                  *)
(***************************************************************************)

\* A key event: Joypad::update_button.
UpdateButton ==
    /\ \E button \in JoypadButton, pressed \in BOOLEAN :
          joypad' = update_button(joypad, button, pressed)
    /\ UNCHANGED <<busOut, others_joypad>>

\* MemoryBus::write for FF00, with each value of the two selection bits.
WriteJoypad ==
    /\ \E val \in {0, 16, 32, 48} : joypad' = JoypadWrite(joypad, val)
    /\ UNCHANGED <<busOut, others_joypad>>

\* Joypad::poll takes a pending request.
PollJoypad ==
    /\ joypad.interrupt
    /\ joypad' = [joypad EXCEPT !.interrupt = FALSE]
    /\ UNCHANGED <<busOut, others_joypad>>

NextJoypad ==
    \/ UpdateButton
    \/ WriteJoypad
    \/ PollJoypad

InitJoypad ==
    InitMachine /\ InitCart /\ InitAlu /\ InitPeers_joypad /\ joypad = JoypadDefault

SpecJoypad == InitJoypad /\ [][NextJoypad]_vars

\* Some bit of the low nibble of FF00 reads 1 in j and 0 in k.
FallingBit(j, k) ==
    \E i \in 0..3 : Bit(read_nibble(j), i) /\ ~Bit(read_nibble(k), i)

(***************************************************************************)
(* C20: a joypad interrupt is requested for every 1-to-0 transition of any *)
(* bit of the low nibble of FF00, whether a button press or a write to     *)
(* FF00 caused it and whatever the other three bits read; no interrupt is  *)
(* requested when no bit goes from 1 to 0.                                 *)
(***************************************************************************)
C20_JoypadInterrupt ==
    [][ /\ FallingBit(joypad, joypad') => joypad'.interrupt
        /\ (~FallingBit(joypad, joypad') /\ ~joypad.interrupt) =>
              ~joypad'.interrupt
      ]_vars

(***************************************************************************)
(* C21: while LCDC bit 7 is set the PPU repeats a frame of 154 lines of    *)
(* 114 m-cycles: after the step of m-cycle k of a line 0..143 the mode is  *)
(* OAM scan for k in 0..19, Drawing from k = 20 and then HBlank up to the  *)
(* end of the line; it is VBlank in all of lines 144..153; the position    *)
(* advances by one modulo 17556; and the step requests the VBlank          *)
(* interrupt exactly in m-cycle 0 of line 144.                             *)
(***************************************************************************)
C21_Frame ==
    [][ (Bit(ppu'.LCDC, 7) /\ ppu'.cycles = (ppu.cycles + 1) % FrameCycles) =>
          LET line == ppu.cycles \div LineCycles
              k    == ppu.cycles % LineCycles
          IN  /\ ppu'.mode = IF line >= VisibleLines THEN VBlank
                             ELSE IF k < OamScanCycles THEN OamScan
                             ELSE IF k < HBlankStart THEN Drawing
                             ELSE HBlank
              /\ ppuOut'.vblank <=> (line = VisibleLines /\ k = 0)
      ]_vars

\* The step of m-cycle 0 of line 144 has entered VBlank and requested the
\* interrupt.
C21_Witness ==
    /\ Bit(ppu.LCDC, 7)
    /\ ppu.cycles = VisibleLines * LineCycles + 1
    /\ ppu.mode = VBlank
    /\ ppuOut.vblank

\* The STAT condition of a PPU state, with the comparison LY = LYC.
StatCondition(p) == StatLine(p, p.LY = p.LYC)

(***************************************************************************)
(* C22: a PPU step requests a STAT interrupt iff the STAT condition,       *)
(* (LY = LYC and STAT bit 6) or (mode = m and STAT bit 3+m for some m in   *)
(* 0..2), is true after that step and was false after the previous step.  *)
(***************************************************************************)
C22_StatEdge ==
    [][ ~ppu.draw =>
          (ppuOut'.stat <=> (StatCondition(ppu') /\ ~StatCondition(ppu)))
      ]_vars

(***************************************************************************)
(* The redraw loop: the window's redraw requests, the frame-limiter        *)
(* hotkey, and time passing between them.                                  *)
(***************************************************************************)

\* DisplayEvent::RedrawRequested: Display::draw_frame, with a run_frame
\* that takes one or two units of time.
DrawFrame ==
    /\ \E cost \in 1..2, render \in 0..1 : host' = draw_frame(host, cost, render)
    /\ UNCHANGED <<busOut, others_host>>

\* Hotkey::ToggleFrameLimiter.
ToggleFrameLimiter ==
    /\ host' = [host EXCEPT !.limiter.limit_framerate = ~@]
    /\ UNCHANGED <<busOut, others_host>>

\* A unit of time passes between two events.
Elapse ==
    /\ host.limiter.elapsed < MaxElapsed
    /\ host' = [host EXCEPT !.limiter.elapsed = @ + 1]
    /\ UNCHANGED <<busOut, others_host>>

NextHost ==
    \/ DrawFrame
    \/ ToggleFrameLimiter
    \/ Elapse

InitHost == InitMachine /\ InitCart /\ InitAlu /\ InitPeers_host /\ host = HostNew

SpecHost == InitHost /\ [][NextHost]_vars

(***************************************************************************)
(* C23: every call of draw_frame, with the frame limiter on or off and     *)
(* from the first call on, runs run_frame exactly once before it renders.  *)
(***************************************************************************)
C23_OneFramePerDraw == host.runs # <<>> => host.runs = <<1>>

(***************************************************************************)
(* The audio hand-off: the emulator thread pushes a sample per m-cycle,    *)
(* the audio callback receives, time passes, the limiter is toggled.       *)
(***************************************************************************)

\* The number of blocks the channel holds in a run of the model.
MaxBlocks == 2

\* Apu::tick: push_sample.
PushSample ==
    /\ push_sample(sampler).queued <= MaxBlocks * BlockSamples
    /\ sampler' = push_sample(sampler)
    /\ UNCHANGED <<busOut, others_sampler>>

\* The callback of spawn_audio receives the samples of a block; a
\* consumer that never drains never takes this step.
ReceiveSamples ==
    /\ sampler.queued >= BlockSamples
    /\ sampler' = [sampler EXCEPT !.queued = @ - BlockSamples]
    /\ UNCHANGED <<busOut, others_sampler>>

\* Apu::toggle_frame_limiter.
ToggleSamplerLimiter ==
    /\ sampler' = [sampler EXCEPT !.limit_framerate = ~@]
    /\ UNCHANGED <<busOut, others_sampler>>

\* 1/128 s has passed since Sampler::instant.
SamplerDue ==
    /\ ~sampler.due
    /\ sampler' = [sampler EXCEPT !.due = TRUE]
    /\ UNCHANGED <<busOut, others_sampler>>

NextSampler ==
    \/ PushSample
    \/ ReceiveSamples
    \/ ToggleSamplerLimiter
    \/ SamplerDue

InitSampler ==
    InitMachine /\ InitCart /\ InitAlu /\ InitPeers_sampler /\ sampler = SamplerNew

SpecSampler == InitSampler /\ [][NextSampler]_vars

(***************************************************************************)
(* C24: the number of samples held between the emulator thread and the     *)
(* audio consumer (the 8192-entry block buffer plus the channel) never     *)
(* exceeds a fixed bound, for every consumer speed: a full block is        *)
(* dropped instead of queued behind a block the consumer has not taken.    *)
(***************************************************************************)
C24_Bounded == sampler.len + sampler.queued <= BlockLen + BlockSamples

(***************************************************************************)
(* C25: no CPU read or write of an address in 0000-FFFF, with any byte,    *)
(* makes the core panic, for every supported mapper: here the MBC3         *)
(* cartridge without RAM, read and written at its bus addresses.           *)
(***************************************************************************)
C25_NoFault == ~mbc3.panicked

(***************************************************************************)
(* C26: servicing an interrupt takes 5 m-cycles: the check that dispatches *)
(* an interrupt (IME set, a source pending) runs the m-cycle ticker five   *)
(* times before the handler's first instruction, so DIV advances by 20 and *)
(* the cycle counter by 5.                                                 *)
(***************************************************************************)
C26_InterruptCost ==
    [][ (loopPos = "check" /\ loopPos' = "step" /\ ime /\ Pending(Machine) # {}) =>
          /\ cycles' = cycles + 5
          /\ timers'.div = (timers.div + 20) % 65536
      ]_vars

(***************************************************************************)
(* C27: every m-cycle the CPU ticks, in an instruction or in HALT, does    *)
(* the timer increment, then one DMA byte, one PPU step and one APU tick:  *)
(* no m-cycle advances the timers alone.                                   *)
(***************************************************************************)
C27_MCycleOrder ==
    [][ cycles' = cycles + 1 =>
          /\ timers' = increment(timers).timers
          /\ bus' = tick_dma(bus)
          /\ ppu' = step(ppu).ppu
          /\ sampler' = push_sample(sampler)
      ]_vars

(***************************************************************************)
(* The clock of the MBC3 cartridge alone: the CPU enables RAM/RTC, selects *)
(* an RTC register, writes it, and the clock is incremented.               *)
(***************************************************************************)

\* The bytes the CPU writes to an RTC register.
RtcVals == {1, 193}

\* The writes of the CPU: <<address, value>>.
RtcClockWrites ==
    ({0} \X {10}) \cup ({16384} \X (8..12)) \cup ({40960} \X RtcVals)

\* Cartridge::write -> <MBC3RamRtc as Mapper>::write.
RtcClockWrite ==
    /\ ~rtcCart.panicked /\ sav = <<>>
    /\ \E w \in RtcClockWrites : rtcCart' = Mbc3RamRtcWrite(rtcCart, w[1], w[2])
    /\ busOut' = <<>>
    /\ UNCHANGED others_rtcCart

NextRtcClock ==
    \/ RtcClockWrite
    \/ IncrementRtc

SpecRtcClock == InitRtc /\ [][NextRtcClock]_vars

\* The step is a write of v to A000 with RAM/RTC enabled and an RTC
\* register selected.
RtcRegisterWrite(v) ==
    /\ rtcCart.ram_enabled
    /\ rtcCart.register % 16 \in 8..12
    /\ sav = <<>>
    /\ rtcCart' = Mbc3RamRtcWrite(rtcCart, 40960, v)

\* The latched state l with register reg written with v.
Modified(l, reg, v) ==
    CASE reg = 8  -> [l EXCEPT !.seconds = v % 64]
      [] reg = 9  -> [l EXCEPT !.minutes = v % 64]
      [] reg = 10 -> [l EXCEPT !.hours = v % 32]
      [] reg = 11 -> [l EXCEPT !.days = (@ \div 256) * 256 + v]
      [] reg = 12 -> [l EXCEPT !.days = (@ % 256) + 256 * (v % 2)]

(***************************************************************************)
(* C28 as stated: a write to any of the RTC registers 0x08-0x0C, with      *)
(* RAM/RTC enabled, resets the sub-second divider (cycle and tick counter  *)
(* become 0) and makes the internal state equal to the latched state as    *)
(* modified by the write.                                                  *)
(***************************************************************************)
C28_AnyRegisterResets ==
    [][ \A v \in RtcVals : RtcRegisterWrite(v) =>
          /\ rtcCart'.rtc.cycles = 0
          /\ rtcCart'.rtc.ticks = 0
          /\ rtcCart'.rtc.latched_state =
                Modified(rtcCart.rtc.latched_state, rtcCart.register % 16, v)
          /\ rtcCart'.rtc.internal_state = rtcCart'.rtc.latched_state
      ]_vars

(***************************************************************************)
(* C28: a write to RTC register 0x08, with RAM/RTC enabled, resets the     *)
(* sub-second divider (cycle and tick counter become 0); a write to        *)
(* 0x09-0x0C leaves the divider as it is; and a write to any of 0x08-0x0C  *)
(* makes the internal state equal to the latched state as modified by the  *)
(* write.                                                                  *)
(***************************************************************************)
C28_RtcWrite ==
    [][ \A v \in RtcVals : RtcRegisterWrite(v) =>
          /\ IF rtcCart.register % 16 = 8
             THEN rtcCart'.rtc.cycles = 0 /\ rtcCart'.rtc.ticks = 0
             ELSE /\ rtcCart'.rtc.cycles = rtcCart.rtc.cycles
                  /\ rtcCart'.rtc.ticks = rtcCart.rtc.ticks
          /\ rtcCart'.rtc.latched_state =
                Modified(rtcCart.rtc.latched_state, rtcCart.register % 16, v)
          /\ rtcCart'.rtc.internal_state = rtcCart'.rtc.latched_state
      ]_vars

\* The day register was written while the clock stood one increment before
\* a second: both states hold the written byte and the divider is as it was.
C28_Witness ==
    /\ rtcCart.ram_enabled /\ rtcCart.register = 11
    /\ rtcCart.rtc.latched_state.days % 256 = 193
    /\ rtcCart.rtc.internal_state = rtcCart.rtc.latched_state
    /\ rtcCart.rtc.cycles = 124 /\ rtcCart.rtc.ticks = 32767

\* The calls of increment that make a divider tick (4 cycles a call, 128
\* cycles a tick) and the ticks that make a second.
CallsPerTick == 32
TicksPerSecond == 32768

\* The calls of increment since the divider was reset.
Calls(rtc) == rtc.ticks * CallsPerTick + rtc.cycles \div 4

\* The step is a call of increment_rtc.
IncrementStep ==
    /\ sav = <<>>
    /\ rtcCart' = [rtcCart EXCEPT !.rtc = RtcIncrement(rtcCart.rtc)]

(***************************************************************************)
(* C29 as stated: with the RTC not halted, the seconds advance by one      *)
(* after exactly 128 * 32768 calls of increment_rtc from a reset divider,  *)
(* and not before.                                                         *)
(***************************************************************************)
C29_SecondOf128Calls ==
    [][ (IncrementStep /\ ~rtcCart.rtc.halted
           /\ rtcCart'.rtc.internal_state.seconds # rtcCart.rtc.internal_state.seconds) =>
          Calls(rtcCart.rtc) + 1 = 128 * TicksPerSecond
      ]_vars

(***************************************************************************)
(* C29: with the RTC not halted, every call of increment_rtc counts one    *)
(* call of the 32 that make a divider tick; the seconds advance by one     *)
(* (59 is followed by 0) at call 32 * 32768 after the divider was reset,   *)
(* and the internal state is unchanged by every call before it; while the  *)
(* halt flag is set, increment_rtc changes nothing.                        *)
(***************************************************************************)
C29_Second ==
    [][ /\ rtcCart.rtc.halted => RtcIncrement(rtcCart.rtc) = rtcCart.rtc
        /\ (IncrementStep /\ ~rtcCart.rtc.halted) =>
             LET r == rtcCart.rtc
                 n == rtcCart'.rtc
             IN  /\ Calls(n) = (Calls(r) + 1) % (CallsPerTick * TicksPerSecond)
                 /\ n.cycles \in 0..124
                 /\ IF Calls(r) + 1 = CallsPerTick * TicksPerSecond
                    THEN n.internal_state.seconds =
                            IF r.internal_state.seconds = 59 THEN 0
                            ELSE (r.internal_state.seconds + 1) % 64
                    ELSE n.internal_state = r.internal_state
      ]_vars

\* The clock passed from 7 to 8 seconds and the divider started again.
C29_Witness ==
    /\ ~rtcCart.rtc.halted
    /\ rtcCart.rtc.internal_state.seconds = 8
    /\ rtcCart.rtc.cycles = 0 /\ rtcCart.rtc.ticks = 0

(***************************************************************************)
(* The frame sequencer over a whole round of its eight steps, with the     *)
(* writes that load and enable the length counters and set the envelopes   *)
(* and the sweep.                                                          *)
(***************************************************************************)

\* The number of register writes that take effect, and the number of
\* frame-sequencer steps, in a run of this model.
MaxSequencerWrites == 2
MaxSequencerSteps == 8

\* The writes of the CPU: FF26 = 0x80; NR10, NR11, NR12, NR14; NR21, NR24;
\* NR31, NR34; NR42, NR44; and NR14, NR24, NR34, NR44 with the length
\* enable bit alone.
SequencerWrites ==
    { <<65318, 128>>, <<65296, 25>>, <<65297, 128>>, <<65298, 243>>,
      <<65300, 199>>, <<65302, 128>>, <<65305, 192>>, <<65307, 255>>,
      <<65310, 192>>, <<65313, 241>>, <<65315, 192>>,
      <<65300, 64>>, <<65305, 64>>, <<65310, 64>>, <<65315, 64>> }

\* MemoryBus::write for FF10-FF26.
SequencerWrite ==
    \E w \in SequencerWrites :
       LET effective == apu.master_enable /\ w[1] \in ApuRegisters
       IN  /\ effective => apu.writes < MaxSequencerWrites
           /\ apu' = [ApuWrite(apu, w[1], w[2]) EXCEPT
                        !.writes = IF effective THEN @ + 1 ELSE @]
           /\ busIn' = w
           /\ busOut' = <<>>
           /\ UNCHANGED rest_apu

\* A falling edge of DIV bit 12 in Timers::increment.
SequencerStep ==
    /\ apu.steps < MaxSequencerSteps
    /\ apu' = [tick_frame_sequencer(apu) EXCEPT !.steps = @ + 1]
    /\ busIn' = <<>>
    /\ busOut' = <<>>
    /\ UNCHANGED rest_apu

NextSequencer ==
    \/ SequencerWrite
    \/ SequencerStep

SpecSequencer == InitApu /\ [][NextSequencer]_vars

(***************************************************************************)
(* The frame sequencer's schedule.  The step number of a frame-sequencer   *)
(* step is the frame_sequence the channels hold after it.                  *)
(***************************************************************************)

\* The length counter l became m in a step that is, or is not, one of the
\* steps that clock it.
LengthScheduled(l, m, clocked) ==
    m.timer = IF clocked THEN LengthClock(l)[1].timer ELSE l.timer

\* The envelope v became w in a step that is, or is not, the step that
\* clocks it.
VolumeScheduled(v, w, clocked) ==
    w = IF clocked THEN VolumeTick(v) ELSE v

(***************************************************************************)
(* C30: for every channel, with the frame-sequencer steps numbered 0..7,   *)
(* the length counter is clocked on steps 0, 2, 4 and 6 and on no other    *)
(* step, the volume envelope on step 7 only, and the sweep of channel 1 on *)
(* steps 2 and 6 only.                                                     *)
(***************************************************************************)
C30_Schedule ==
    [][ apu'.steps = apu.steps + 1 =>
          LET fs == apu'.channel1.frame_sequence
          IN  /\ fs = (apu.channel1.frame_sequence + 1) % 8
              /\ LengthScheduled(apu.channel1.length, apu'.channel1.length, fs % 2 = 0)
              /\ LengthScheduled(apu.channel2.length, apu'.channel2.length, fs % 2 = 0)
              /\ LengthScheduled(apu.channel3.length, apu'.channel3.length, fs % 2 = 0)
              /\ LengthScheduled(apu.channel4.length, apu'.channel4.length, fs % 2 = 0)
              /\ VolumeScheduled(apu.channel1.volume, apu'.channel1.volume, fs = 7)
              /\ VolumeScheduled(apu.channel2.volume, apu'.channel2.volume, fs = 7)
              /\ VolumeScheduled(apu.channel4.volume, apu'.channel4.volume, fs = 7)
              /\ apu'.channel1.sweep = IF fs \in {2, 6}
                                       THEN SweepTick(apu.channel1.sweep)[1]
                                       ELSE apu.channel1.sweep
      ]_vars

(***************************************************************************)
(* Triggers: a write with bit 7 set to NR14, NR24, NR34 or NR44 while the  *)
(* APU is powered on.                                                      *)
(***************************************************************************)

\* The step is a write of a byte with bit 7 set to the register addr.
TriggerWrite(addr) ==
    /\ apu.master_enable
    /\ busIn' # <<>>
    /\ busIn'[1] = addr
    /\ Bit(busIn'[2], 7)

\* The length counter l became m by a trigger with maximum N.
Reloaded(l, m, N) ==
    m.timer = IF l.timer = 0 THEN N ELSE l.timer

(***************************************************************************)
(* C31: triggering a channel whose length counter is 0 reloads the counter *)
(* to the maximum (64 for channels 1, 2 and 4; 256 for channel 3), in      *)
(* every frame-sequencer phase and whether or not length is enabled;       *)
(* triggering with a non-zero length counter leaves it unchanged.  For     *)
(* channel 3 the counter is taken after the clock the same write may give  *)
(* it by enabling length.                                                  *)
(***************************************************************************)
C31_TriggerReload ==
    [][ /\ TriggerWrite(65300) =>
             Reloaded(apu.channel1.length, apu'.channel1.length, 64)
        /\ TriggerWrite(65305) =>
             Reloaded(apu.channel2.length, apu'.channel2.length, 64)
        /\ TriggerWrite(65310) =>
             Reloaded(set_enable(apu.channel3.length, Bit(busIn'[2], 6))[1],
                      apu'.channel3.length, 256)
        /\ TriggerWrite(65315) =>
             Reloaded(apu.channel4.length, apu'.channel4.length, 64)
      ]_vars

\* The step is a write to the register addr that sets the length enable
\* bit and does not trigger.
EnableWrite(addr) ==
    /\ apu.master_enable
    /\ busIn' # <<>>
    /\ busIn'[1] = addr
    /\ Bit(busIn'[2], 6) /\ ~Bit(busIn'[2], 7)

\* The frame sequencer is in the first half of a length period: its last
\* step was an even one, its next step does not clock length.
FirstHalf == apu.channel1.frame_sequence % 2 = 0

\* Channel ch became d by a write that enabled its length counter.
ExtraClock(ch, d) ==
    ~ch.length.enable =>
       IF FirstHalf
       THEN LET c == LengthClock([ch.length EXCEPT !.enable = TRUE])
            IN  /\ d.length.timer = c[1].timer
                /\ d.trigger = (ch.trigger /\ ~c[2])
       ELSE /\ d.length.timer = ch.length.timer
            /\ d.trigger = ch.trigger

(***************************************************************************)
(* C32: for each of the four channels, a write that changes the length     *)
(* enable bit from 0 to 1 while the frame sequencer is in the first half   *)
(* of a length period clocks the length counter once at the write and      *)
(* disables the channel if the counter reaches 0; the same write in the    *)
(* other half gives no extra clock.                                        *)
(***************************************************************************)
C32_EnableClock ==
    [][ /\ EnableWrite(65300) => ExtraClock(apu.channel1, apu'.channel1)
        /\ EnableWrite(65305) => ExtraClock(apu.channel2, apu'.channel2)
        /\ EnableWrite(65310) => ExtraClock(apu.channel3, apu'.channel3)
        /\ EnableWrite(65315) => ExtraClock(apu.channel4, apu'.channel4)
      ]_vars

(***************************************************************************)
(* The sweep of channel 1: the APU is powered on and the DAC of channel 1  *)
(* is on; the CPU writes NR10 and triggers the channel, and the frame      *)
(* sequencer steps.                                                        *)
(***************************************************************************)

\* The number of register writes in a run of this model.
MaxSweepWrites == 4

\* The writes of the CPU: NR10 with pace 1 and step 1, subtracting (0x19)
\* and adding (0x11); NR14 with a trigger, period 0x700 and period 0.
SweepWrites == { <<65296, 25>>, <<65296, 17>>, <<65300, 135>>, <<65300, 128>> }

\* MemoryBus::write for FF10 and FF14.
SweepWrite ==
    /\ apu.writes < MaxSweepWrites
    /\ \E w \in SweepWrites :
         /\ apu' = [ApuWrite(apu, w[1], w[2]) EXCEPT !.writes = @ + 1]
         /\ busIn' = w
    /\ busOut' = <<>>
    /\ UNCHANGED rest_apu

NextSweep ==
    \/ SweepWrite
    \/ SequencerStep

\* 0x80 was written to FF26 and 0xF3 to FF12.
InitSweep ==
    /\ InitMachine /\ InitCart /\ InitAlu /\ InitPeers_apu
    /\ apu = ApuWrite(ApuWrite(ApuNew, 65318, 128), 65298, 243)

SpecSweep == InitSweep /\ [][NextSweep]_vars

(***************************************************************************)
(* C33: channel 1 records whether a sweep period calculation has been made *)
(* in subtract mode since its last trigger: the record is cleared by a     *)
(* trigger, set by the calculation the trigger makes when the step field   *)
(* is non-zero and by the calculation of a later sweep tick, and changed   *)
(* by nothing else; a write to FF10 that clears the direction bit disables *)
(* the channel at once if the record is set, and does not disable it if    *)
(* the record is clear.                                                    *)
(***************************************************************************)
C33_NegateLatch ==
    [][ LET s  == apu.channel1.sweep
            t  == apu'.channel1.sweep
            fs == apu'.channel1.frame_sequence
        IN  /\ (busIn' # <<>> /\ busIn'[1] = 65296) =>
                  /\ t.negate_mode = s.negate_mode
                  /\ apu'.channel1.trigger =
                        (apu.channel1.trigger
                           /\ ~(s.negate_mode /\ ~Bit(busIn'[2], 3)))
            /\ (busIn' # <<>> /\ busIn'[1] = 65300 /\ Bit(busIn'[2], 7)) =>
                  t.negate_mode = (s.step # 0 /\ s.direction)
            /\ apu'.steps = apu.steps + 1 =>
                  t.negate_mode =
                     (s.negate_mode
                        \/ (fs \in {2, 6} /\ s.pace_timer = 1 /\ s.enabled
                              /\ s.pace # 0 /\ s.direction))
      ]_vars

\* Channel 1 was triggered while subtracting, and the write of 0x11 to FF10
\* has disabled it.
C33_Witness ==
    /\ busIn = <<65296, 17>>
    /\ apu.channel1.sweep.negate_mode
    /\ apu.channel1.sweep.shadow_period = 1792
    /\ apu.channel1.dac_enabled
    /\ ~apu.channel1.trigger


(***************************************************************************)
(* The OAM scan of one visible line, for a set of OAM images: one with     *)
(* forty sprites on the line at distinct x, and every image whose first    *)
(* four entries are drawn from SpriteChoices (on the line at x 8 or 16, off *)
(* the line, on the line at x 0) with the other entries zero.               *)
(***************************************************************************)
SpriteChoices == { <<16, 8>>, <<16, 16>>, <<0, 8>>, <<16, 0>> }
ChosenEntries == 4

OamImages ==
    { [i \in 0..(OamEntries - 1) |-> <<16, 8 + i>>] } \cup
    { [i \in 0..(OamEntries - 1) |-> IF i < ChosenEntries THEN f[i] ELSE <<0, 0>>] :
          f \in [0..(ChosenEntries - 1) -> SpriteChoices] }

\* One cycle of Ppu::cycle with scanline < 144 and clocks < 20: the list is
\* cleared at clocks = 0, then entries 2 * clocks and 2 * clocks + 1 are
\* fetched.
OamScanCycle ==
    /\ scan.clocks < 20
    /\ LET l0 == IF scan.clocks = 0 THEN <<>> ELSE scan.oam_sprites
       IN  \E l1 \in oam_scan_fetch(scan, l0, 2 * scan.clocks) :
           \E l2 \in oam_scan_fetch(scan, l1, 2 * scan.clocks + 1) :
               scan' = [scan EXCEPT !.oam_sprites = l2, !.clocks = @ + 1]
    /\ UNCHANGED <<busOut, others_scan>>

NextOamScan == OamScanCycle

InitOamScan ==
    /\ InitMachine /\ InitCart /\ InitAlu /\ InitPeers_scan
    /\ \E o \in OamImages, t \in BOOLEAN, ly \in {0, 8} :
           scan = [ScanNew EXCEPT !.oam = o, !.tall = t, !.LY = ly]

SpecOamScan == InitOamScan /\ [][NextOamScan]_vars

\* The OAM indices of the entries on the line, and the first ten of them.
OnLine(p) == { i \in 0..(OamEntries - 1) : fetch_sprite(p, i) # <<>> }
FirstTen(p) ==
    { i \in OnLine(p) : Cardinality({ j \in OnLine(p) : j < i }) < MaxSprites }
Retained(p) == { p.oam_sprites[k].idx : k \in 1..Len(p.oam_sprites) }

(***************************************************************************)
(* C34: after the OAM scan of a visible line the retained sprite list      *)
(* holds the first (in OAM order) at most 10 entries with X > 0 and LY + 16 *)
(* in [Y, Y + height), and the list is ordered by ascending X with sprites  *)
(* of equal X kept in OAM-index order.                                      *)
(***************************************************************************)
C34_ScanList ==
    scan.clocks = 20 =>
        LET l == scan.oam_sprites
        IN  /\ Len(l) = Cardinality(FirstTen(scan))
            /\ Retained(scan) = FirstTen(scan)
            /\ \A a, b \in 1..Len(l) :
                   a < b => \/ l[a].x < l[b].x
                            \/ (l[a].x = l[b].x /\ l[a].idx < l[b].idx)


\* The last Ppu::step ran cycle 20 of a visible line with LCDC bit 0 set:
\* draw_line called draw_bg_line, which indexes viewport (144 rows) with
\* LY.  Ppu::cycle does not change LY at cycle 20, so the row is LY.
DrewBgLine(p) ==
    /\ Bit(p.LCDC, 7) /\ Bit(p.LCDC, 0)
    /\ p.cycles % LineCycles = OamScanCycles + 1
    /\ p.cycles \div LineCycles < VisibleLines

(***************************************************************************)
(* C35: the line counter LY read from FF44 is in 0..153 in every reachable *)
(* state, so the row index used when a scanline is drawn is always below   *)
(* 144.                                                                    *)
(***************************************************************************)
C35_LineCounter ==
    /\ ppu.LY \in 0..LastLine
    /\ DrewBgLine(ppu) => ppu.LY < VisibleLines


(***************************************************************************)
(* C36: the timer tick that reloads TIMA from TMA never also increments    *)
(* TIMA: after every Timers::increment call that returns an interrupt      *)
(* request, TIMA = TMA and no overflow is pending, for every sequence of   *)
(* DIV, TIMA, TMA and TAC writes made between ticks.                        *)
(***************************************************************************)
C36_ReloadTick ==
    [][ (cycles' = cycles + 1 /\ timerOut'.interrupt) =>
            /\ timers'.tima = timers'.tma
            /\ ~timers'.overflow
            /\ ~timerOut'.clocked
      ]_vars

\* A reload tick has happened after TMA was written with 16.
C36_Witness ==
    /\ timerOut.interrupt /\ ~timerOut.clocked
    /\ timers.tma = 16 /\ timers.tima = 16 /\ ~timers.overflow


\* The volume envelopes of channels 1, 2 and 4.
Envelopes(a) == { a.channel1.volume, a.channel2.volume, a.channel4.volume }

(***************************************************************************)
(* C37: the volume-envelope pace timer never underflows: whenever an       *)
(* envelope clock (frame-sequencer step 7) runs with pace # 0 the pace     *)
(* timer is at least 1, so after any sequence of NRx2 writes, triggers and *)
(* frame-sequencer steps the pace timer stays in 0..8 and the level in     *)
(* 0..15.                                                                  *)
(***************************************************************************)
\* An envelope clock that runs with pace # 0 and a pace timer of 0 leaves
\* the wrapped value 255, so the range states both halves.
C37_PaceTimer ==
    \A v \in Envelopes(apu) : v.pace_timer \in 0..8 /\ v.level \in 0..15


(***************************************************************************)
(* One iteration of Cpu::run for every opcode: every first byte, and every *)
(* byte after CB.                                                          *)
(***************************************************************************)
\* let instr = self.decode_instr()?
OpcodeDecode ==
    /\ opc.stage = "fetch"
    /\ opc' = [opc EXCEPT !.instr = decode_opcode(opc.byte, opc.second),
                          !.stage = IF decode_opcode(opc.byte, opc.second) = "Crash"
                                    THEN "error" ELSE "decoded"]
    /\ UNCHANGED <<busOut, others_opc>>

\* self.execute_instr(instr)
OpcodeExecute ==
    /\ opc.stage = "decoded"
    /\ opc' = [opc EXCEPT !.stage = IF execute_panics(opc.instr)
                                    THEN "abort" ELSE "executed"]
    /\ UNCHANGED <<busOut, others_opc>>

NextOpcodes ==
    \/ OpcodeDecode
    \/ OpcodeExecute

InitOpcodes ==
    /\ InitMachine /\ InitCart /\ InitAlu /\ InitPeers_opc
    /\ \E b \in 0..255 :
       \E c \in (IF b = 203 THEN 0..255 ELSE {0}) :
           opc = [OpcNew EXCEPT !.byte = b, !.second = c]

SpecOpcodes == InitOpcodes /\ [][NextOpcodes]_vars

(***************************************************************************)
(* C38: only the 11 illegal opcodes fault: every other primary opcode      *)
(* (including STOP 0x10) and every CB-prefixed opcode decodes and executes *)
(* without stopping the run loop or aborting.                              *)
(***************************************************************************)
C38_OnlyIllegalFault ==
    opc.stage \in {"error", "abort"} => opc.byte \in CrashOpcodes


(***************************************************************************)
(* The noise generator after a trigger: ticks of the channel interleaved   *)
(* with FF22 writes that select the 15-bit or the 7-bit mode (divider code *)
(* 0, shift 0: one LFSR clock every second tick).                          *)
(***************************************************************************)
NoiseWrites == {0, 8}

\* Apu::tick: self.channel4.tick().
NoiseTick ==
    /\ noise' = Channel4Tick(noise)
    /\ noise' # noise
    /\ UNCHANGED <<busOut, others_noise>>

\* MemoryBus::write(0xff22, val).
NoiseWriteNR43 ==
    /\ \E v \in NoiseWrites : noise' = NoiseWrite(noise, v)
    /\ noise' # noise
    /\ UNCHANGED <<busOut, others_noise>>

NextNoise ==
    \/ NoiseTick
    \/ NoiseWriteNR43

InitNoise ==
    /\ InitMachine /\ InitCart /\ InitAlu /\ InitPeers_noise
    /\ noise = NoiseTrigger(NoiseNew)

SpecNoise == InitNoise /\ [][NextNoise]_vars

(***************************************************************************)
(* C39: while channel 4 is triggered its LFSR never locks up: after a      *)
(* trigger (LFSR = 0x7FFF) and any sequence of noise clocks interleaved    *)
(* with FF22 writes (including switches between 15-bit and 7-bit mode),    *)
(* the LFSR value stays in 1..0x7FFF and never becomes 0.                  *)
(***************************************************************************)
C39_NoLockUp ==
    noise.trigger => noise.lfsr \in 1..32767


(***************************************************************************)
(* The frame loop: Ppu::step until draw_check, with the program writing    *)
(* LCDC (0: LCD off, 0x91: LCD on) at chosen points of a frame.  A run     *)
(* ends once FrameCycles + 1 steps have passed without the flag.           *)
(***************************************************************************)
\* The step counts of a frame at which the program writes LCDC.
LcdWriteTimes == {2, 100}

\* One m-cycle: Ppu::step.
FrameStep ==
    /\ ~ppu.draw
    /\ frame.since <= FrameCycles
    /\ ppu' = step(ppu).ppu
    /\ ppuOut' = [vblank |-> step(ppu).vblank, stat |-> step(ppu).stat]
    /\ frame' = Counted(frame, ppu, ppu')
    /\ UNCHANGED <<timerVars, cpuVars, alu, cartVars, busOut, peers_frame>>

\* An instruction writing FF40, and its first m-cycle.
FrameLcdWrite ==
    /\ ~ppu.draw
    /\ frame.raised /\ frame.since \in LcdWriteTimes
    /\ \E val \in {0, 145} :
        LET r == step(PpuWrite(ppu, 65344, val))
        IN  /\ ppu' = r.ppu
            /\ ppuOut' = [vblank |-> r.vblank, stat |-> r.stat]
    /\ frame' = Counted(frame, ppu, ppu')
    /\ UNCHANGED <<timerVars, cpuVars, alu, cartVars, busOut, peers_frame>>

NextFrame ==
    \/ FrameStep
    \/ FrameLcdWrite
    \/ DrawCheck

InitFrame ==
    /\ InitMachine /\ InitCart /\ InitAlu /\ InitPeers_frame
    /\ frame = FrameNew

SpecFrame == InitFrame /\ [][NextFrame]_vars

(***************************************************************************)
(* C40: the PPU's frame-boundary flag (draw) is raised again at most 17556 *)
(* PPU steps after it was last raised, in every execution and whatever     *)
(* writes the program makes to LCDC (turning the LCD off and on), so a     *)
(* frame loop that steps the PPU until draw is set always terminates.      *)
(***************************************************************************)
C40_FramePeriod ==
    frame.raised => frame.since < FrameCycles

=============================================================================
